---- MODULE Spec2Model ----
(***************************************************************************)
(* Model of the in-memory store of product-catalogue (server/storage.ts):  *)
(* MemStorage, its derived StoreStats, and the calls made on it.           *)
(*                                                                         *)
(* A JavaScript object is a TLA+ record (a function on field names), the   *)
(* spread {...a, ...b} is Spread(a, b).  A JavaScript Map is a sequence of *)
(* [k, v] entries in insertion order.  "undefined" is the empty sequence   *)
(* None and a present value x is Some(x).  Catalogue objects are mutated   *)
(* in place by the code, so they live in a heap and the catalogues Map     *)
(* holds references to them.  Amounts are integers.                        *)
(***************************************************************************)
EXTENDS Integers, Sequences, FiniteSets, TLC

VARIABLES
    store,   \* the MemStorage instance (storage.ts:61-78)
    now,     \* the clock read by `new Date()`
    budget,  \* number of calls still to be made (bounds the exploration)
    last,    \* history: the last completed call, its arguments, the store before it, its result
    fresh,   \* history: per userId, what happened since its StoreStats record was created zeroed
    tasks,   \* the calls in flight: each one stopped at an `await`, with its local variables
    trace    \* history: the view increments completed per catalogue, and the calls started
             \* since no call was in flight with the store they started from

vars == <<store, now, budget, last, fresh, tasks, trace>>

-----------------------------------------------------------------------------
(* Bounds of the exploration *)

MaxOrderCalls == 3
MaxJoinCalls == 5
MaxPopularCalls == 6
MaxUpdateCalls == 4
MaxViewCalls == 5
MaxStatsCalls == 3
MaxInFlight == 2
MaxIdCalls == 4
MaxMissingCalls == 3
MaxDanglingCalls == 6
MaxFacadeCalls == 4
MaxRecordCalls == 3
MaxStatusCalls == 3
MaxListingCalls == 6
MaxCountCalls == 5
MaxBucketCalls == 4
MaxShareCalls == 4
MaxLimitCalls == 3
MaxPutCalls == 6
MaxPutCatalogues == 1
MaxTime == 1

UserIds == {1, 2}
Statuses == {"pending", "processing", "shipped", "delivered", "cancelled"}

-----------------------------------------------------------------------------
(* JavaScript values *)

None == <<>>
Some(x) == <<x>>
IsSome(o) == Len(o) = 1
Val(o) == o[1]

EmptyObject == [k \in {} |-> 0]

\* {...a, ...b}
Spread(a, b) == [k \in DOMAIN a \cup DOMAIN b |-> IF k \in DOMAIN b THEN b[k] ELSE a[k]]

\* o.k, where a missing property reads as the string "undefined"
Field(o, k) == IF k \in DOMAIN o THEN o[k] ELSE "undefined"

\* (x || 0) on a number
OrZero(x) == IF x = 0 THEN 0 ELSE x

\* Map
MapHas(m, key) == \E i \in 1..Len(m) : m[i].k = key
MapIndex(m, key) == CHOOSE i \in 1..Len(m) : m[i].k = key
MapGet(m, key) == IF MapHas(m, key) THEN Some(m[MapIndex(m, key)].v) ELSE None
MapSet(m, key, value) ==
    IF MapHas(m, key)
    THEN [m EXCEPT ![MapIndex(m, key)] = [k |-> key, v |-> value]]
    ELSE Append(m, [k |-> key, v |-> value])
MapDelete(m, key) == SelectSeq(m, LAMBDA e : e.k # key)
MapValues(m) == [i \in 1..Len(m) |-> m[i].v]
MapKeys(m) == [i \in 1..Len(m) |-> m[i].k]

\* arr.find(...), given the set of indices the predicate holds at
FirstAt(arr, hits) ==
    IF hits = {} THEN None ELSE Some(arr[CHOOSE i \in hits : \A j \in hits : i <= j])

Range(seq) == {seq[i] : i \in 1..Len(seq)}

Min(a, b) == IF a < b THEN a ELSE b
Max(a, b) == IF a > b THEN a ELSE b

\* arr.slice(0, end)
SliceTo(arr, end) ==
    SubSeq(arr, 1, IF end < 0 THEN Max(Len(arr) + end, 0) ELSE Min(end, Len(arr)))

\* The heap of catalogue objects: reference -> object
Alloc(h) == CHOOSE r \in 1..(Cardinality(DOMAIN h) + 1) :
                r \notin DOMAIN h /\ \A q \in 1..(r - 1) : q \in DOMAIN h
HeapPut(h, r, o) == [x \in DOMAIN h \cup {r} |-> IF x = r THEN o ELSE h[x]]

-----------------------------------------------------------------------------
(* User methods *)

getUser(s, id) == MapGet(s.users, id)

createUser(s, insertUser) ==
    LET id == s.userId
        user == Spread(insertUser, [id |-> id])
    IN  [s |-> [s EXCEPT !.userId = @ + 1, !.users = MapSet(@, id, user)], r |-> user]

\* an updateStoreSettings that creates the user it does not find
updateStoreSettings_Upsert(s, userId, settings) ==
    LET user == getUser(s, userId)
        updatedUser == Spread(IF IsSome(user) THEN Val(user) ELSE [id |-> userId], settings)
    IN  [s |-> [s EXCEPT !.users = MapSet(@, userId, updatedUser)],
         r |-> Some(updatedUser), threw |-> FALSE]

\* threw: the call ended in `throw new Error(...)` and has no result
updateStoreSettings(s, userId, settings) ==
    LET user == getUser(s, userId)
    IN  IF ~IsSome(user)
        THEN [s |-> s, r |-> None, threw |-> TRUE]
        ELSE LET updatedUser == Spread(Val(user), settings)
             IN  [s |-> [s EXCEPT !.users = MapSet(@, userId, updatedUser)],
                  r |-> Some(updatedUser), threw |-> FALSE]

-----------------------------------------------------------------------------
(* Stats methods *)

getStoreStats(s, userId) ==
    LET arr == MapValues(s.stats)
    IN  FirstAt(arr, {i \in 1..Len(arr) : arr[i].userId = userId})

ZeroStats(id, userId, t) ==
    [id |-> id, userId |-> userId,
     totalRevenue |-> 0, totalOrders |-> 0, cataloguesShared |-> 0, totalProducts |-> 0,
     revenueChange |-> 0, ordersChange |-> 0, sharesChange |-> 0, productsChange |-> 0,
     pendingOrders |-> 0, processingOrders |-> 0, completedOrders |-> 0,
     cancelledOrders |-> 0, updatedAt |-> t]

\* the part of updateStoreStats after `await this.getStoreStats(userId)` gave found
updateStoreStatsWrite(s, userId, statsUpdate, found, t) ==
    LET created == ~IsSome(found)
        stats == IF created THEN ZeroStats(s.statsId, userId, t) ELSE Val(found)
        updatedStats == Spread(Spread(stats, statsUpdate), [updatedAt |-> t])
    IN  [s EXCEPT !.statsId = IF created THEN @ + 1 ELSE @,
                  !.stats = MapSet(@, updatedStats.id, updatedStats)]

updateStoreStats(s, userId, statsUpdate, t) ==
    updateStoreStatsWrite(s, userId, statsUpdate, getStoreStats(s, userId), t)

-----------------------------------------------------------------------------
(* Product methods *)

getProduct(s, id) == MapGet(s.products, id)

createProductStatsUpdate(stats) ==
    [totalProducts |-> stats.totalProducts + 1,
     productsChange |-> stats.productsChange + 1]

\* a createProduct that numbers the product by the size of the Map
createProductStore_SizeId(s, insertProduct, t) ==
    LET id == Len(s.products) + 1
        product == Spread(insertProduct, [id |-> id, createdAt |-> t])
    IN  [s |-> [s EXCEPT !.productId = @ + 1, !.products = MapSet(@, id, product)],
         r |-> product]

\* createProduct up to its first await: the product is stored
createProductStore(s, insertProduct, t) ==
    LET id == s.productId
        product == Spread(insertProduct, [id |-> id, createdAt |-> t])
    IN  [s |-> [s EXCEPT !.productId = @ + 1, !.products = MapSet(@, id, product)],
         r |-> product]

createProduct(s, insertProduct, t) ==
    LET c == createProductStore(s, insertProduct, t)
        stats == getStoreStats(c.s, insertProduct.userId)
    IN  IF IsSome(stats)
        THEN [s |-> updateStoreStats(c.s, insertProduct.userId,
                                     createProductStatsUpdate(Val(stats)), t),
              r |-> c.r]
        ELSE c

getProducts(s, userId) ==
    SelectSeq(MapValues(s.products), LAMBDA product : product.userId = userId)

\* an updateProduct that lets the stored record win over the partial input
updateProduct_ExistingWins(s, id, product) ==
    LET existingProduct == getProduct(s, id)
    IN  IF ~IsSome(existingProduct)
        THEN [s |-> s, r |-> None]
        ELSE LET updatedProduct == Spread(product, Val(existingProduct))
             IN  [s |-> [s EXCEPT !.products = MapSet(@, id, updatedProduct)],
                  r |-> Some(updatedProduct)]

updateProduct(s, id, product) ==
    LET existingProduct == getProduct(s, id)
    IN  IF ~IsSome(existingProduct)
        THEN [s |-> s, r |-> None]
        ELSE LET updatedProduct == Spread(Val(existingProduct), product)
             IN  [s |-> [s EXCEPT !.products = MapSet(@, id, updatedProduct)],
                  r |-> Some(updatedProduct)]

\* a deleteProduct that also removes the product's association rows
deleteProduct_Cascade(s, id) ==
    [s |-> [s EXCEPT !.products = MapDelete(@, id),
                     !.catalogueProducts = SelectSeq(@, LAMBDA e : ~(e.v.productId = id))],
     r |-> MapHas(s.products, id)]

\* a deleteProduct that takes the product out of its owner's totalProducts
deleteProduct_Uncounted(s, id) ==
    LET product == getProduct(s, id)
        s1 == [s EXCEPT !.products = MapDelete(@, id)]
    IN  IF IsSome(product) /\ IsSome(getStoreStats(s, Val(product).userId))
        THEN [s |-> updateStoreStats(s1, Val(product).userId,
                        [totalProducts |->
                            Val(getStoreStats(s, Val(product).userId)).totalProducts - 1], 0),
              r |-> TRUE]
        ELSE [s |-> s1, r |-> IsSome(product)]

deleteProduct(s, id) ==
    [s |-> [s EXCEPT !.products = MapDelete(@, id)], r |-> MapHas(s.products, id)]

-----------------------------------------------------------------------------
(* Category methods *)

getCategory(s, id) == MapGet(s.categories, id)

createCategory(s, insertCategory) ==
    LET id == s.categoryId
        category == Spread(insertCategory, [id |-> id])
    IN  [s |-> [s EXCEPT !.categoryId = @ + 1, !.categories = MapSet(@, id, category)],
         r |-> category]

updateCategory(s, id, category) ==
    LET existingCategory == getCategory(s, id)
    IN  IF ~IsSome(existingCategory)
        THEN [s |-> s, r |-> None]
        ELSE LET updatedCategory == Spread(Val(existingCategory), category)
             IN  [s |-> [s EXCEPT !.categories = MapSet(@, id, updatedCategory)],
                  r |-> Some(updatedCategory)]

getCategories(s, userId) ==
    SelectSeq(MapValues(s.categories), LAMBDA category : category.userId = userId)

\* a deleteCategory that answers true whether or not the category was there
deleteCategory_AlwaysTrue(s, id) ==
    [s |-> [s EXCEPT !.categories = MapDelete(@, id)], r |-> TRUE]

deleteCategory(s, id) ==
    [s |-> [s EXCEPT !.categories = MapDelete(@, id)], r |-> MapHas(s.categories, id)]

-----------------------------------------------------------------------------
(* Catalogue methods.  getCatalogue gives a reference into the heap. *)

getCatalogue(s, id) == MapGet(s.catalogues, id)

createCatalogue(s, insertCatalogue, t) ==
    LET id == s.catalogueId
        catalogue == Spread(insertCatalogue,
                            [id |-> id, createdAt |-> t, viewCount |-> 0, shareCount |-> 0])
        ref == Alloc(s.heap)
    IN  [s |-> [s EXCEPT !.catalogueId = @ + 1,
                         !.heap = HeapPut(@, ref, catalogue),
                         !.catalogues = MapSet(@, id, ref)],
         r |-> ref]

\* the catalogue objects of a user, in the Map's order
getCatalogues(s, userId) ==
    SelectSeq([i \in 1..Len(s.catalogues) |-> s.heap[s.catalogues[i].v]],
              LAMBDA catalogue : catalogue.userId = userId)

\* an updateCatalogue that starts the catalogue's counts again
updateCatalogue_ResetCounts(s, id, catalogue) ==
    LET existingCatalogue == getCatalogue(s, id)
    IN  IF ~IsSome(existingCatalogue)
        THEN [s |-> s, r |-> None]
        ELSE LET updatedCatalogue ==
                     Spread(Spread(s.heap[Val(existingCatalogue)], catalogue),
                            [viewCount |-> 0, shareCount |-> 0])
                 ref == Alloc(s.heap)
             IN  [s |-> [s EXCEPT !.heap = HeapPut(@, ref, updatedCatalogue),
                                  !.catalogues = MapSet(@, id, ref)],
                  r |-> Some(ref)]

updateCatalogue(s, id, catalogue) ==
    LET existingCatalogue == getCatalogue(s, id)
    IN  IF ~IsSome(existingCatalogue)
        THEN [s |-> s, r |-> None]
        ELSE LET updatedCatalogue == Spread(s.heap[Val(existingCatalogue)], catalogue)
                 ref == Alloc(s.heap)
             IN  [s |-> [s EXCEPT !.heap = HeapPut(@, ref, updatedCatalogue),
                                  !.catalogues = MapSet(@, id, ref)],
                  r |-> Some(ref)]

\* a deleteCatalogue that forgets the catalogue's association rows
deleteCatalogue_NoCascade(s, id) ==
    [s |-> [s EXCEPT !.catalogues = MapDelete(@, id)], r |-> MapHas(s.catalogues, id)]

deleteCatalogue(s, id) ==
    [s |-> [s EXCEPT !.catalogueProducts = SelectSeq(@, LAMBDA e : ~(e.v.catalogueId = id)),
                     !.catalogues = MapDelete(@, id)],
     r |-> MapHas(s.catalogues, id)]

\* an increment that stores an incremented copy and leaves the object it read alone
incrementCatalogueViewCountWrite_Copy(s, id, found) ==
    IF IsSome(found)
    THEN LET ref == Alloc(s.heap)
             updated == [s.heap[Val(found)] EXCEPT !.viewCount = @ + 1]
         IN  [s EXCEPT !.heap = HeapPut(@, ref, updated), !.catalogues = MapSet(@, id, ref)]
    ELSE s

\* the part of incrementCatalogueViewCount after `await this.getCatalogue(id)` gave found
incrementCatalogueViewCountWrite(s, id, found) ==
    IF IsSome(found)
    THEN LET ref == Val(found)
         IN  [s EXCEPT !.heap[ref].viewCount = @ + 1, !.catalogues = MapSet(@, id, ref)]
    ELSE s

incrementCatalogueViewCount(s, id) ==
    incrementCatalogueViewCountWrite(s, id, getCatalogue(s, id))

\* the part of incrementCatalogueShareCount between its first and its second await
incrementCatalogueShareCountWrite(s, id, found) ==
    IF IsSome(found)
    THEN LET ref == Val(found)
         IN  [s EXCEPT !.heap[ref].shareCount = @ + 1, !.catalogues = MapSet(@, id, ref)]
    ELSE s

shareStatsUpdate(stats) ==
    [cataloguesShared |-> stats.cataloguesShared + 1,
     sharesChange |-> stats.sharesChange + 1]

incrementCatalogueShareCount(s, id, t) ==
    LET found == getCatalogue(s, id)
        s1 == incrementCatalogueShareCountWrite(s, id, found)
    IN  IF IsSome(found)
        THEN LET userId == s1.heap[Val(found)].userId
                 stats == getStoreStats(s1, userId)
             IN  IF IsSome(stats)
                 THEN updateStoreStats(s1, userId, shareStatsUpdate(Val(stats)), t)
                 ELSE s1
        ELSE s1

\* !user.whatsappNumber: the field is missing or the empty string
NoWhatsappNumber(user) ==
    Field(user, "whatsappNumber") = "undefined" \/ Field(user, "whatsappNumber") = ""

\* The handler of POST /catalogues/:id/share.  `catalogue` is the object the Map
\* holds, the one incrementCatalogueShareCount adds 1 to.
postCatalogueShare(s, id, t) ==
    LET catalogue == getCatalogue(s, id)
    IN  IF ~IsSome(catalogue)
        THEN [s |-> s, status |-> 404, body |-> [message |-> "Catalogue not found"]]
        ELSE LET s1 == incrementCatalogueShareCount(s, id, t)
                 user == getUser(s1, s1.heap[Val(catalogue)].userId)
             IN  IF ~IsSome(user) \/ NoWhatsappNumber(Val(user))
                 THEN [s |-> s1, status |-> 400,
                       body |-> [message |-> "WhatsApp number not configured"]]
                 ELSE [s |-> s1, status |-> 200,
                       body |-> [whatsappUrl |-> Val(user).whatsappNumber,
                                 catalogueUrl |-> id,
                                 shareCount |-> s1.heap[Val(catalogue)].shareCount + 1]]

\* the comparator a mistaken ascending sort would use
byViewCount_Ascending(a, b) == a.viewCount - b.viewCount

\* (a, b) => b.viewCount - a.viewCount
byViewCount(a, b) == b.viewCount - a.viewCount

\* arr.sort(byViewCount), a stable sort: an element goes after those that compare
\* before it and after the earlier elements that compare equal to it
sortByViewCount(arr) ==
    LET n == Len(arr)
        Rank(i) == Cardinality({j \in 1..n : byViewCount(arr[j], arr[i]) < 0})
                   + Cardinality({j \in 1..(i - 1) : byViewCount(arr[j], arr[i]) = 0}) + 1
    IN  [r \in 1..n |-> arr[CHOOSE i \in 1..n : Rank(i) = r]]

getPopularCatalogues(s, userId, limit) ==
    LET userCatalogues == getCatalogues(s, userId)
    IN  SliceTo(sortByViewCount(userCatalogues), limit)

-----------------------------------------------------------------------------
(* Catalogue Products methods *)

\* `${catalogueId}:${productId}`
CatalogueProductKey(catalogueId, productId) ==
    ToString(catalogueId) \o ":" \o ToString(productId)

\* an addProductToCatalogue that keys the row by its own running id
addProductToCatalogue_RowIdKey(s, catalogueId, productId) ==
    [s EXCEPT !.catalogueProductId = @ + 1,
              !.catalogueProducts =
                  MapSet(@, ToString(s.catalogueProductId),
                         [catalogueId |-> catalogueId, productId |-> productId])]

addProductToCatalogue(s, catalogueId, productId) ==
    LET key == CatalogueProductKey(catalogueId, productId)
    IN  IF ~MapHas(s.catalogueProducts, key)
        THEN [s EXCEPT !.catalogueProductId = @ + 1,
                       !.catalogueProducts =
                           MapSet(@, key, [catalogueId |-> catalogueId,
                                           productId |-> productId])]
        ELSE s

\* a removeProductFromCatalogue that clears the whole catalogue
removeProductFromCatalogue_AllRows(s, catalogueId, productId) ==
    [s EXCEPT !.catalogueProducts =
                  SelectSeq(@, LAMBDA e : ~(e.v.catalogueId = catalogueId))]

removeProductFromCatalogue(s, catalogueId, productId) ==
    [s EXCEPT !.catalogueProducts =
                  MapDelete(@, CatalogueProductKey(catalogueId, productId))]

getProductsInCatalogue(s, catalogueId) ==
    LET rows == SelectSeq(MapValues(s.catalogueProducts),
                          LAMBDA cp : cp.catalogueId = catalogueId)
        productIds == [i \in 1..Len(rows) |-> rows[i].productId]
    IN  SelectSeq(MapValues(s.products), LAMBDA product : product.id \in Range(productIds))

\* for (const productId of currentProductIds)
\*   if (!req.body.productIds.includes(productId)) removeProductFromCatalogue(id, productId)
RECURSIVE removeNoLongerListed(_, _, _, _)
removeNoLongerListed(s, id, currentProductIds, productIds) ==
    IF currentProductIds = <<>> THEN s
    ELSE removeNoLongerListed(
             IF Head(currentProductIds) \notin Range(productIds)
             THEN removeProductFromCatalogue(s, id, Head(currentProductIds))
             ELSE s,
             id, Tail(currentProductIds), productIds)

\* for (const productId of req.body.productIds)
\*   if (!currentProductIds.includes(productId)) addProductToCatalogue(id, productId)
RECURSIVE addNewlyListed(_, _, _, _)
addNewlyListed(s, id, productIds, currentProductIds) ==
    IF productIds = <<>> THEN s
    ELSE addNewlyListed(
             IF Head(productIds) \notin Range(currentProductIds)
             THEN addProductToCatalogue(s, id, Head(productIds))
             ELSE s,
             id, Tail(productIds), currentProductIds)

\* a PUT /catalogues/:id that adds the listed products and removes none
putCatalogue_AddOnly(s, id, catalogueData, productIds) ==
    LET c == updateCatalogue(s, id, catalogueData)
    IN  IF ~IsSome(c.r)
        THEN [s |-> s, status |-> 404, body |-> [message |-> "Catalogue not found"]]
        ELSE IF ~IsSome(productIds)
        THEN [s |-> c.s, status |-> 200, body |-> c.s.heap[Val(c.r)]]
        ELSE LET currentProducts == getProductsInCatalogue(c.s, id)
                 currentProductIds ==
                     [i \in 1..Len(currentProducts) |-> currentProducts[i].id]
             IN  [s |-> addNewlyListed(c.s, id, Val(productIds), currentProductIds),
                  status |-> 200, body |-> c.s.heap[Val(c.r)]]

\* The handler of PUT /catalogues/:id.  catalogueData is the body as
\* insertCatalogueSchema.partial() parses it, productIds the body's list (None
\* when the body has none; an empty list is truthy and is handled as a list).
putCatalogue(s, id, catalogueData, productIds) ==
    LET c == updateCatalogue(s, id, catalogueData)
    IN  IF ~IsSome(c.r)
        THEN [s |-> s, status |-> 404, body |-> [message |-> "Catalogue not found"]]
        ELSE IF ~IsSome(productIds)
        THEN [s |-> c.s, status |-> 200, body |-> c.s.heap[Val(c.r)]]
        ELSE LET currentProducts == getProductsInCatalogue(c.s, id)
                 currentProductIds ==
                     [i \in 1..Len(currentProducts) |-> currentProducts[i].id]
                 removed == removeNoLongerListed(c.s, id, currentProductIds,
                                                 Val(productIds))
             IN  [s |-> addNewlyListed(removed, id, Val(productIds), currentProductIds),
                  status |-> 200, body |-> c.s.heap[Val(c.r)]]

\* Objects no Map entry refers to are dropped and the references renumbered in
\* the Map's order (no call is in flight, so nothing else holds a reference).
Canon(s) ==
    [s EXCEPT !.heap = [i \in 1..Len(s.catalogues) |-> s.heap[s.catalogues[i].v]],
              !.catalogues = [i \in 1..Len(s.catalogues) |-> [k |-> s.catalogues[i].k, v |-> i]]]

-----------------------------------------------------------------------------
(* Order methods *)

getOrder(s, id) == MapGet(s.orders, id)

\* the comparator a mistaken oldest-first sort would use
byCreatedAt_Ascending(a, b) == a.createdAt - b.createdAt

\* (a, b) => b.createdAt.getTime() - a.createdAt.getTime()
byCreatedAt(a, b) == b.createdAt - a.createdAt

\* arr.sort(byCreatedAt), a stable sort
sortByCreatedAt(arr) ==
    LET n == Len(arr)
        Rank(i) == Cardinality({j \in 1..n : byCreatedAt(arr[j], arr[i]) < 0})
                   + Cardinality({j \in 1..(i - 1) : byCreatedAt(arr[j], arr[i]) = 0}) + 1
    IN  [r \in 1..n |-> arr[CHOOSE i \in 1..n : Rank(i) = r]]

\* limit is None when the argument is left out; `if (limit)` is false for it and for 0
getOrders(s, userId, limit) ==
    LET userOrders == sortByCreatedAt(SelectSeq(MapValues(s.orders),
                                                LAMBDA order : order.userId = userId))
    IN  IF IsSome(limit) /\ Val(limit) # 0
        THEN SliceTo(userOrders, Val(limit))
        ELSE userOrders

\* getRecentOrders(userId, limit: number = 5)
DefaultRecentLimit == 5

getRecentOrders(s, userId, limit) ==
    getOrders(s, userId, IF IsSome(limit) THEN limit ELSE Some(DefaultRecentLimit))

\* parseInt on the query strings used here
parseInt(str) ==
    CASE str = "0" -> 0
      [] str = "1" -> 1
      [] str = "2" -> 2
      [] str = "10" -> 10

\* req.query.limit ? parseInt(req.query.limit) : otherwise -- a missing parameter
\* and the empty string are falsy, "0" is not
queryLimit(query, otherwise) ==
    IF Field(query, "limit") \notin {"undefined", ""}
    THEN Some(parseInt(query.limit))
    ELSE otherwise

\* GET /orders: the development user is userId 1
getOrdersRoute(s, query) == getOrders(s, 1, queryLimit(query, None))

\* GET /orders/recent
getRecentOrdersRoute(s, query) ==
    getRecentOrders(s, 1, queryLimit(query, Some(DefaultRecentLimit)))

\* createOrder up to its first await: the order and its items are stored
createOrderStore(s, insertOrder, items, t) ==
    LET id == s.orderId
        order == Spread(insertOrder, [id |-> id, createdAt |-> t, updatedAt |-> t])
        orderItemsList ==
            [i \in 1..Len(items) |-> Spread(items[i], [id |-> id, orderId |-> id])]
    IN  [s |-> [s EXCEPT !.orderId = @ + 1,
                         !.orders = MapSet(@, id, order),
                         !.orderItemId = @ + Len(items),
                         !.orderItems = MapSet(@, id, orderItemsList)],
         r |-> order]

\* a createOrder that counts the order but forgets its amount
createOrderStatsUpdate_NoRevenue(stats, insertOrder) ==
    [totalOrders |-> stats.totalOrders + 1,
     ordersChange |-> stats.ordersChange + 1,
     pendingOrders |-> stats.pendingOrders + 1]

\* a createOrder that also adds the order's amount to revenueChange
createOrderStatsUpdate_RevenueChange(stats, insertOrder) ==
    [totalOrders |-> stats.totalOrders + 1,
     ordersChange |-> stats.ordersChange + 1,
     totalRevenue |-> stats.totalRevenue + insertOrder.totalAmount,
     revenueChange |-> stats.revenueChange + insertOrder.totalAmount,
     pendingOrders |-> stats.pendingOrders + 1]

\* a createOrder that counts the new order as completed
createOrderStatsUpdate_Completed(stats, insertOrder) ==
    [totalOrders |-> stats.totalOrders + 1,
     ordersChange |-> stats.ordersChange + 1,
     totalRevenue |-> stats.totalRevenue + insertOrder.totalAmount,
     completedOrders |-> stats.completedOrders + 1]

createOrderStatsUpdate(stats, insertOrder) ==
    [totalOrders |-> stats.totalOrders + 1,
     ordersChange |-> stats.ordersChange + 1,
     totalRevenue |-> stats.totalRevenue + insertOrder.totalAmount,
     pendingOrders |-> stats.pendingOrders + 1]

createOrder(s, insertOrder, items, t) ==
    LET c == createOrderStore(s, insertOrder, items, t)
        stats == getStoreStats(c.s, insertOrder.userId)
    IN  IF IsSome(stats)
        THEN [s |-> updateStoreStats(c.s, insertOrder.userId,
                                     createOrderStatsUpdate(Val(stats), insertOrder), t),
              r |-> c.r]
        ELSE c

\* an updateOrderStatus that forgets to decrement the old status' counter
orderStatusStatsUpdate_NoDecrement(stats, oldStatus, status) ==
    IF status = "pending"
    THEN [pendingOrders |-> OrZero(stats.pendingOrders) + 1]
    ELSE IF status = "processing"
    THEN [processingOrders |-> OrZero(stats.processingOrders) + 1]
    ELSE IF status = "delivered" \/ status = "shipped"
    THEN [completedOrders |-> OrZero(stats.completedOrders) + 1]
    ELSE IF status = "cancelled"
    THEN [cancelledOrders |-> OrZero(stats.cancelledOrders) + 1]
    ELSE EmptyObject

\* the statsUpdate object built by updateOrderStatus: the decrement of the old
\* status' property, then the assignment of the new status' property
orderStatusStatsUpdate(stats, oldStatus, status) ==
    LET dec ==
            IF oldStatus = "pending"
            THEN [pendingOrders |-> stats.pendingOrders - 1]
            ELSE IF oldStatus = "processing"
            THEN [processingOrders |-> stats.processingOrders - 1]
            ELSE IF oldStatus = "delivered" \/ oldStatus = "shipped"
            THEN [completedOrders |-> stats.completedOrders - 1]
            ELSE IF oldStatus = "cancelled"
            THEN [cancelledOrders |-> stats.cancelledOrders - 1]
            ELSE EmptyObject
        inc ==
            IF status = "pending"
            THEN [pendingOrders |-> OrZero(stats.pendingOrders) + 1]
            ELSE IF status = "processing"
            THEN [processingOrders |-> OrZero(stats.processingOrders) + 1]
            ELSE IF status = "delivered" \/ status = "shipped"
            THEN [completedOrders |-> OrZero(stats.completedOrders) + 1]
            ELSE IF status = "cancelled"
            THEN [cancelledOrders |-> OrZero(stats.cancelledOrders) + 1]
            ELSE EmptyObject
    IN  Spread(dec, inc)

\* an updateOrderStatus that keeps a cancelled or delivered order as it is
updateOrderStatusStore_Guarded(s, id, status, order, t) ==
    LET final == Field(order, "status") \in {"cancelled", "delivered"}
        updatedOrder == IF final THEN order
                        ELSE Spread(order, [status |-> status, updatedAt |-> t])
    IN  [s |-> [s EXCEPT !.orders = MapSet(@, id, updatedOrder)], r |-> updatedOrder]

\* the part of updateOrderStatus between `await this.getOrder(id)`, which gave
\* order, and its second await: the order is stored with its new status
updateOrderStatusStore(s, id, status, order, t) ==
    LET updatedOrder == Spread(order, [status |-> status, updatedAt |-> t])
    IN  [s |-> [s EXCEPT !.orders = MapSet(@, id, updatedOrder)], r |-> updatedOrder]

updateOrderStatus(s, id, status, t) ==
    LET found == getOrder(s, id)
    IN  IF ~IsSome(found)
        THEN [s |-> s, r |-> None]
        ELSE
            LET order == Val(found)
                oldStatus == Field(order, "status")
                c == updateOrderStatusStore(s, id, status, order, t)
                stats == getStoreStats(c.s, order.userId)
            IN  IF IsSome(stats)
                THEN [s |-> updateStoreStats(c.s, order.userId,
                                orderStatusStatsUpdate(Val(stats), oldStatus, status), t),
                      r |-> Some(c.r)]
                ELSE [s |-> c.s, r |-> Some(c.r)]

-----------------------------------------------------------------------------
(* The store after construction *)

DemoUser ==
    [id |-> 1, username |-> "demo", password |-> "password",
     storeName |-> "YourStore", whatsappNumber |-> "9876543210"]

DemoStats ==
    [id |-> 1, userId |-> 1,
     totalRevenue |-> 28450, totalOrders |-> 146, cataloguesShared |-> 52,
     totalProducts |-> 38, revenueChange |-> 12, ordersChange |-> 8,
     sharesChange |-> 24, productsChange |-> 5, pendingOrders |-> 12,
     processingOrders |-> 8, completedOrders |-> 126, cancelledOrders |-> 5,
     updatedAt |-> 0]

DemoCategory(id, name, description) ==
    [k |-> id, v |-> [id |-> id, name |-> name, description |-> description, userId |-> 1]]

DemoCategories ==
    << DemoCategory(1, "Electronics", "Electronic gadgets and devices"),
       DemoCategory(2, "Accessories", "Fashion accessories"),
       DemoCategory(3, "Footwear", "Shoes and footwear"),
       DemoCategory(4, "Sports", "Sports equipment") >>

InitStore ==
    [users |-> << [k |-> 1, v |-> DemoUser] >>,
     products |-> <<>>,
     categories |-> DemoCategories,
     catalogues |-> <<>>,
     heap |-> EmptyObject,
     catalogueProducts |-> <<>>,
     orders |-> <<>>,
     orderItems |-> <<>>,
     stats |-> << [k |-> 1, v |-> DemoStats] >>,
     userId |-> 2, productId |-> 1, categoryId |-> 5, catalogueId |-> 1,
     catalogueProductId |-> 1, orderId |-> 1, orderItemId |-> 1, statsId |-> 2]

NoCall == [op |-> "none"]

EntityTypes == {"User", "Product", "Category", "Catalogue", "Order"}

\* the ids the constructor assigned: the demo user and its four categories
SeededIds ==
    [type \in EntityTypes |->
        IF type = "User" THEN MapKeys(InitStore.users)
        ELSE IF type = "Category" THEN MapKeys(InitStore.categories)
        ELSE <<>>]

Init(calls) ==
    /\ store = InitStore
    /\ now = 0
    /\ budget = calls
    /\ last = NoCall
    /\ fresh = [u \in UserIds |-> [state |-> "none", n |-> 0, sum |-> 0]]
    /\ tasks = <<>>
    /\ trace = [views |-> EmptyObject, base |-> InitStore, calls |-> <<>>,
                ids |-> SeededIds]

-----------------------------------------------------------------------------
(* Inputs *)

Amounts == {10, 25}
InputStatuses == Statuses \cup {"undefined"}

Item(productId, quantity, price) ==
    [orderId |-> 0, productId |-> productId, quantity |-> quantity, price |-> price]

\* the cart whose total is the order's totalAmount
ItemsFor(amount) ==
    IF amount = 10 THEN << Item(1, 1, 10) >> ELSE << Item(1, 1, 10), Item(2, 3, 5) >>

\* an InsertOrder: status is optional in insertOrderSchema
InsertOrder(userId, amount, status) ==
    LET base == [orderNumber |-> "ORD-1000", customerName |-> "alice",
                 totalAmount |-> amount, userId |-> userId]
    IN  IF status = "undefined" THEN base ELSE Spread(base, [status |-> status])

StatsUpdates == { EmptyObject, [pendingOrders |-> 3] }

InsertProduct(userId) ==
    [name |-> "lamp", sku |-> "SKU-1", price |-> 30, stock |-> 4,
     categoryId |-> 1, userId |-> userId]

InsertCatalogue(userId) == [name |-> "summer", isPublic |-> TRUE, userId |-> userId]

InsertCategory(userId) == [name |-> "Garden", userId |-> userId]

\* objects handed to createCatalogue: an InsertCatalogue, and one that carries
\* counts of its own
CatalogueInputs ==
    { InsertCatalogue(1),
      Spread(InsertCatalogue(1), [viewCount |-> 7, shareCount |-> 3]) }

InsertUsers == { [username |-> "bob", password |-> "secret"] }

\* UpdateStoreSettings: every field is optional
StoreSettings == { [storeName |-> "MyShop"], [whatsappNumber |-> "5550100", storeUrl |-> "shop"] }

\* Partial<InsertProduct>, Partial<InsertCategory>, Partial<InsertCatalogue>
ProductPatches == { [price |-> 50], [name |-> "desk", stock |-> 0], EmptyObject }
CategoryPatches == { [name |-> "Toys"], [description |-> "Outdoor", userId |-> 2] }
CataloguePatches == { [name |-> "winter"], [description |-> "sale", isPublic |-> FALSE],
                      EmptyObject }

\* getPopularCatalogues(userId, limit: number = 3)
DefaultPopularLimit == 3
EffectiveLimit(limit) == IF IsSome(limit) THEN Val(limit) ELSE DefaultPopularLimit

-----------------------------------------------------------------------------
(* History of the zeroed StoreStats records *)

Tainted(f, userId) ==
    IF f[userId].state = "zeroed" THEN [f EXCEPT ![userId].state = "tainted"] ELSE f

FreshAfterCreateOrder(f, userId, amount) ==
    IF f[userId].state = "zeroed"
    THEN [f EXCEPT ![userId].n = @ + 1, ![userId].sum = @ + amount]
    ELSE f

FreshAfterUpdateStoreStats(f, s, userId, statsUpdate) ==
    IF ~IsSome(getStoreStats(s, userId)) /\ DOMAIN statsUpdate = {}
    THEN [f EXCEPT ![userId] = [state |-> "zeroed", n |-> 0, sum |-> 0]]
    ELSE Tainted(f, userId)

\* the ids assigned to the records of a type, in creation order
Assigned(tr, type, id) == [tr EXCEPT !.ids[type] = Append(@, id)]

\* the number of incrementCatalogueViewCount calls completed on catalogue id
ViewCalls(tr, id) == IF id \in DOMAIN tr.views THEN tr.views[id] ELSE 0

CountView(tr, id) ==
    [tr EXCEPT !.views = [x \in DOMAIN tr.views \cup {id} |->
                             IF x = id THEN ViewCalls(tr, id) + 1 ELSE tr.views[x]]]

-----------------------------------------------------------------------------
(* Calls, each run to completion *)

Tick ==
    /\ now < MaxTime
    /\ now' = now + 1
    /\ UNCHANGED <<store, budget, last, fresh, tasks, trace>>

CreateOrder ==
    /\ budget > 0
    /\ \E userId \in UserIds, amount \in Amounts, status \in InputStatuses :
          LET insertOrder == InsertOrder(userId, amount, status)
              items == ItemsFor(amount)
              c == createOrder(store, insertOrder, items, now)
          IN  /\ store' = c.s
              /\ last' = [op |-> "createOrder", insertOrder |-> insertOrder,
                          items |-> items, pre |-> store, result |-> c.r]
              /\ fresh' = FreshAfterCreateOrder(fresh, userId, amount)
              /\ trace' = Assigned(trace, "Order", c.r.id)
    /\ budget' = budget - 1
    /\ UNCHANGED <<now, tasks>>

UpdateOrderStatus ==
    /\ budget > 0
    /\ \E id \in 1..store.orderId, status \in Statuses :
          LET c == updateOrderStatus(store, id, status, now)
          IN  /\ store' = c.s
              /\ last' = [op |-> "updateOrderStatus", id |-> id, status |-> status,
                          pre |-> store, result |-> c.r]
              /\ fresh' = IF IsSome(getOrder(store, id))
                          THEN Tainted(fresh, Val(getOrder(store, id)).userId)
                          ELSE fresh
    /\ budget' = budget - 1
    /\ UNCHANGED <<now, tasks, trace>>

UpdateStoreStats ==
    /\ budget > 0
    /\ \E userId \in UserIds, statsUpdate \in StatsUpdates :
          /\ store' = updateStoreStats(store, userId, statsUpdate, now)
          /\ last' = [op |-> "updateStoreStats", userId |-> userId,
                      statsUpdate |-> statsUpdate, pre |-> store,
                      result |-> getStoreStats(store', userId)]
          /\ fresh' = FreshAfterUpdateStoreStats(fresh, store, userId, statsUpdate)
    /\ budget' = budget - 1
    /\ UNCHANGED <<now, tasks, trace>>

CreateProduct ==
    /\ budget > 0
    /\ \E userId \in UserIds :
          LET c == createProduct(store, InsertProduct(userId), now)
          IN  /\ store' = c.s
              /\ last' = [op |-> "createProduct", insertProduct |-> InsertProduct(userId),
                          pre |-> store, result |-> c.r]
              /\ fresh' = Tainted(fresh, userId)
              /\ trace' = Assigned(trace, "Product", c.r.id)
    /\ budget' = budget - 1
    /\ UNCHANGED <<now, tasks>>

DeleteProduct ==
    /\ budget > 0
    /\ \E id \in 1..store.productId :
          LET c == deleteProduct(store, id)
          IN  /\ store' = c.s
              /\ last' = [op |-> "deleteProduct", id |-> id, pre |-> store, result |-> c.r]
    /\ budget' = budget - 1
    /\ UNCHANGED <<now, fresh, tasks, trace>>

CreateCatalogue ==
    /\ budget > 0
    /\ \E userId \in UserIds :
          LET c == createCatalogue(store, InsertCatalogue(userId), now)
          IN  /\ store' = Canon(c.s)
              /\ last' = [op |-> "createCatalogue",
                          insertCatalogue |-> InsertCatalogue(userId),
                          pre |-> store, result |-> c.s.heap[c.r]]
              /\ trace' = Assigned(trace, "Catalogue", c.s.heap[c.r].id)
    /\ budget' = budget - 1
    /\ UNCHANGED <<now, fresh, tasks>>

\* createCatalogue given any object, also one with fields InsertCatalogue omits
CreateCatalogueFromInput ==
    /\ budget > 0
    /\ \E insertCatalogue \in CatalogueInputs :
          LET c == createCatalogue(store, insertCatalogue, now)
          IN  /\ store' = Canon(c.s)
              /\ last' = [op |-> "createCatalogue", insertCatalogue |-> insertCatalogue,
                          pre |-> store, result |-> c.s.heap[c.r]]
              /\ trace' = Assigned(trace, "Catalogue", c.s.heap[c.r].id)
    /\ budget' = budget - 1
    /\ UNCHANGED <<now, fresh, tasks>>

DeleteCatalogue ==
    /\ budget > 0
    /\ \E id \in 1..store.catalogueId :
          LET c == deleteCatalogue(store, id)
          IN  /\ store' = Canon(c.s)
              /\ last' = [op |-> "deleteCatalogue", id |-> id, pre |-> store, result |-> c.r]
    /\ budget' = budget - 1
    /\ UNCHANGED <<now, fresh, tasks, trace>>

AddProductToCatalogue ==
    /\ budget > 0
    /\ \E catalogueId \in 1..store.catalogueId, productId \in 1..store.productId :
          /\ store' = addProductToCatalogue(store, catalogueId, productId)
          /\ last' = [op |-> "addProductToCatalogue", catalogueId |-> catalogueId,
                      productId |-> productId, pre |-> store]
    /\ budget' = budget - 1
    /\ UNCHANGED <<now, fresh, tasks, trace>>

RemoveProductFromCatalogue ==
    /\ budget > 0
    /\ \E catalogueId \in 1..store.catalogueId, productId \in 1..store.productId :
          /\ store' = removeProductFromCatalogue(store, catalogueId, productId)
          /\ last' = [op |-> "removeProductFromCatalogue", catalogueId |-> catalogueId,
                      productId |-> productId, pre |-> store]
    /\ budget' = budget - 1
    /\ UNCHANGED <<now, fresh, tasks, trace>>

\* a read: it leaves the store alone and is not counted
GetProductsInCatalogue ==
    /\ \E catalogueId \in 1..store.catalogueId :
          last' = [op |-> "getProductsInCatalogue", catalogueId |-> catalogueId,
                   pre |-> store, result |-> getProductsInCatalogue(store, catalogueId)]
    /\ UNCHANGED <<store, now, budget, fresh, tasks, trace>>

CreateCategory ==
    /\ budget > 0
    /\ \E userId \in UserIds :
          LET c == createCategory(store, InsertCategory(userId))
          IN  /\ store' = c.s
              /\ last' = [op |-> "createCategory", insertCategory |-> InsertCategory(userId),
                          pre |-> store, result |-> c.r]
              /\ trace' = Assigned(trace, "Category", c.r.id)
    /\ budget' = budget - 1
    /\ UNCHANGED <<now, fresh, tasks>>

DeleteCategory ==
    /\ budget > 0
    /\ \E id \in 1..store.categoryId :
          LET c == deleteCategory(store, id)
          IN  /\ store' = c.s
              /\ last' = [op |-> "deleteCategory", id |-> id, pre |-> store, result |-> c.r]
    /\ budget' = budget - 1
    /\ UNCHANGED <<now, fresh, tasks, trace>>

CreateUser ==
    /\ budget > 0
    /\ \E insertUser \in InsertUsers :
          LET c == createUser(store, insertUser)
          IN  /\ store' = c.s
              /\ last' = [op |-> "createUser", insertUser |-> insertUser,
                          pre |-> store, result |-> c.r]
              /\ trace' = Assigned(trace, "User", c.r.id)
    /\ budget' = budget - 1
    /\ UNCHANGED <<now, fresh, tasks>>

\* a read: it leaves the store alone and is not counted
GetOrders ==
    /\ \E userId \in UserIds,
          limit \in {None} \cup {Some(n) : n \in 0..store.orderId} :
          last' = [op |-> "getOrders", userId |-> userId, limit |-> limit, pre |-> store,
                   result |-> getOrders(store, userId, limit)]
    /\ UNCHANGED <<store, now, budget, fresh, tasks, trace>>

\* a read: it leaves the store alone and is not counted
GetRecentOrders ==
    /\ \E userId \in UserIds,
          limit \in {None} \cup {Some(n) : n \in 0..store.orderId} :
          last' = [op |-> "getRecentOrders", userId |-> userId, limit |-> limit,
                   pre |-> store, result |-> getRecentOrders(store, userId, limit)]
    /\ UNCHANGED <<store, now, budget, fresh, tasks, trace>>

UpdateStoreSettings ==
    /\ budget > 0
    /\ \E userId \in 1..store.userId, settings \in StoreSettings :
          LET c == updateStoreSettings(store, userId, settings)
          IN  /\ store' = c.s
              /\ last' = [op |-> "updateStoreSettings", userId |-> userId,
                          settings |-> settings, pre |-> store, result |-> c.r,
                          threw |-> c.threw]
    /\ budget' = budget - 1
    /\ UNCHANGED <<now, fresh, tasks, trace>>

UpdateProduct ==
    /\ budget > 0
    /\ \E id \in 1..store.productId, product \in ProductPatches :
          LET c == updateProduct(store, id, product)
          IN  /\ store' = c.s
              /\ last' = [op |-> "updateProduct", id |-> id, patch |-> product,
                          pre |-> store, result |-> c.r]
    /\ budget' = budget - 1
    /\ UNCHANGED <<now, fresh, tasks, trace>>

UpdateCategory ==
    /\ budget > 0
    /\ \E id \in 1..store.categoryId, category \in CategoryPatches :
          LET c == updateCategory(store, id, category)
          IN  /\ store' = c.s
              /\ last' = [op |-> "updateCategory", id |-> id, patch |-> category,
                          pre |-> store, result |-> c.r]
    /\ budget' = budget - 1
    /\ UNCHANGED <<now, fresh, tasks, trace>>

UpdateCatalogue ==
    /\ budget > 0
    /\ \E id \in 1..store.catalogueId, catalogue \in CataloguePatches :
          LET c == updateCatalogue(store, id, catalogue)
          IN  /\ store' = Canon(c.s)
              /\ last' = [op |-> "updateCatalogue", id |-> id, patch |-> catalogue,
                          pre |-> store,
                          result |-> IF IsSome(c.r) THEN Some(c.s.heap[Val(c.r)]) ELSE None]
    /\ budget' = budget - 1
    /\ UNCHANGED <<now, fresh, tasks, trace>>

IncrementCatalogueViewCount ==
    /\ budget > 0
    /\ \E id \in 1..store.catalogueId :
          /\ store' = Canon(incrementCatalogueViewCount(store, id))
          /\ last' = [op |-> "incrementCatalogueViewCount", id |-> id, pre |-> store,
                      overlap |-> FALSE]
          /\ trace' = IF IsSome(getCatalogue(store, id)) THEN CountView(trace, id) ELSE trace
    /\ budget' = budget - 1
    /\ UNCHANGED <<now, fresh, tasks>>

IncrementCatalogueShareCount ==
    /\ budget > 0
    /\ \E id \in 1..store.catalogueId :
          /\ store' = Canon(incrementCatalogueShareCount(store, id, now))
          /\ last' = [op |-> "incrementCatalogueShareCount", id |-> id, pre |-> store]
          /\ fresh' = IF IsSome(getCatalogue(store, id))
                      THEN Tainted(fresh, store.heap[Val(getCatalogue(store, id))].userId)
                      ELSE fresh
    /\ budget' = budget - 1
    /\ UNCHANGED <<now, tasks, trace>>

\* the query strings of the order listing requests
OrderQueries ==
    { EmptyObject, [limit |-> ""], [limit |-> "0"], [limit |-> "1"], [limit |-> "2"],
      [limit |-> "10"] }

\* GET /orders, a read
GetOrdersRoute ==
    /\ \E query \in OrderQueries :
          last' = [op |-> "getOrdersRoute", query |-> query, userId |-> 1,
                   limit |-> queryLimit(query, None), pre |-> store,
                   result |-> getOrdersRoute(store, query)]
    /\ UNCHANGED <<store, now, budget, fresh, tasks, trace>>

\* GET /orders/recent, a read
GetRecentOrdersRoute ==
    /\ \E query \in OrderQueries :
          last' = [op |-> "getRecentOrdersRoute", query |-> query, userId |-> 1,
                   limit |-> queryLimit(query, Some(DefaultRecentLimit)), pre |-> store,
                   result |-> getRecentOrdersRoute(store, query)]
    /\ UNCHANGED <<store, now, budget, fresh, tasks, trace>>

\* the productIds lists of the PUT bodies: none, empty, and lists over the first
\* product ids, one of them with a repeated id
ProductIdLists ==
    { None, Some(<<>>), Some(<<1>>), Some(<<2>>), Some(<<2, 1>>), Some(<<1, 1>>) }

\* one PUT /catalogues/:id request, handled from start to end
PutCatalogue ==
    /\ budget > 0
    /\ \E id \in 1..store.catalogueId, productIds \in ProductIdLists :
          LET c == putCatalogue(store, id, [name |-> "winter"], productIds)
          IN  /\ store' = Canon(c.s)
              /\ last' = [op |-> "putCatalogue", id |-> id,
                          catalogueData |-> [name |-> "winter"],
                          productIds |-> productIds, pre |-> store,
                          status |-> c.status, body |-> c.body]
    /\ budget' = budget - 1
    /\ UNCHANGED <<now, fresh, tasks, trace>>

\* one POST /catalogues/:id/share request, handled from start to end
PostCatalogueShare ==
    /\ budget > 0
    /\ \E id \in 1..store.catalogueId :
          LET c == postCatalogueShare(store, id, now)
          IN  /\ store' = Canon(c.s)
              /\ last' = [op |-> "postCatalogueShare", id |-> id, pre |-> store,
                          status |-> c.status, body |-> c.body]
              /\ fresh' = IF IsSome(getCatalogue(store, id))
                          THEN Tainted(fresh, store.heap[Val(getCatalogue(store, id))].userId)
                          ELSE fresh
    /\ budget' = budget - 1
    /\ UNCHANGED <<now, tasks, trace>>

\* a read: it leaves the store alone and is not counted
GetPopularCatalogues ==
    /\ \E userId \in UserIds,
          limit \in {None} \cup {Some(n) : n \in 0..store.catalogueId} :
          last' = [op |-> "getPopularCatalogues", userId |-> userId, limit |-> limit,
                   pre |-> store,
                   result |-> getPopularCatalogues(store, userId, EffectiveLimit(limit))]
    /\ UNCHANGED <<store, now, budget, fresh, tasks, trace>>

NextOrders == CreateOrder \/ UpdateOrderStatus \/ UpdateStoreStats

SpecOrders == Init(MaxOrderCalls) /\ [][NextOrders]_vars

NextJoin ==
    \/ CreateProduct
    \/ DeleteProduct
    \/ CreateCatalogue
    \/ DeleteCatalogue
    \/ AddProductToCatalogue
    \/ RemoveProductFromCatalogue
    \/ GetProductsInCatalogue

SpecJoin == Init(MaxJoinCalls) /\ [][NextJoin]_vars

NextPopular ==
    \/ CreateCatalogue
    \/ DeleteCatalogue
    \/ IncrementCatalogueViewCount
    \/ GetPopularCatalogues

SpecPopular == Init(MaxPopularCalls) /\ [][NextPopular]_vars

NextUpdate ==
    \/ CreateProduct
    \/ CreateCategory
    \/ CreateCatalogue
    \/ IncrementCatalogueViewCount
    \/ IncrementCatalogueShareCount
    \/ UpdateProduct
    \/ UpdateCategory
    \/ UpdateCatalogue

SpecUpdate == Init(MaxUpdateCalls) /\ [][NextUpdate]_vars

NextIds ==
    \/ CreateUser
    \/ CreateProduct
    \/ DeleteProduct
    \/ CreateCategory
    \/ DeleteCategory
    \/ CreateCatalogue
    \/ DeleteCatalogue
    \/ CreateOrder /\ "status" \notin DOMAIN last'.insertOrder

SpecIds == Init(MaxIdCalls) /\ [][NextIds]_vars

NextDangling ==
    \/ CreateProduct
    \/ DeleteProduct
    \/ CreateCatalogue
    \/ AddProductToCatalogue
    \/ GetProductsInCatalogue

SpecDangling == Init(MaxDanglingCalls) /\ [][NextDangling]_vars

NextFacade ==
    \/ CreateProduct
    \/ UpdateProduct
    \/ DeleteProduct
    \/ CreateOrder /\ "status" \notin DOMAIN last'.insertOrder
    \/ UpdateOrderStatus
    \/ CreateCatalogue
    \/ IncrementCatalogueShareCount
    \/ IncrementCatalogueViewCount

SpecFacade == Init(MaxFacadeCalls) /\ [][NextFacade]_vars

NextStatus ==
    \/ Tick
    \/ CreateOrder /\ Field(last'.insertOrder, "status") = "pending"
    \/ UpdateOrderStatus

SpecStatus == Init(MaxStatusCalls) /\ [][NextStatus]_vars

NextListing ==
    \/ Tick
    \/ CreateOrder /\ Field(last'.insertOrder, "status") = "pending"
                   /\ last'.insertOrder.totalAmount = 10
    \/ GetOrders
    \/ GetRecentOrders

SpecListing == Init(MaxListingCalls) /\ [][NextListing]_vars

NextCounts ==
    \/ CreateCatalogueFromInput
    \/ UpdateCatalogue
    \/ DeleteCatalogue
    \/ IncrementCatalogueViewCount
    \/ IncrementCatalogueShareCount

SpecCounts == Init(MaxCountCalls) /\ [][NextCounts]_vars

\* A StoreStats record is created zeroed by updateStoreStats(userId, {}) for a
\* userId that has no orders yet; after that only orders are created and moved.
NextBuckets ==
    \/ UpdateStoreStats /\ DOMAIN last'.statsUpdate = {}
                        /\ \A i \in 1..Len(store.orders) :
                               store.orders[i].v.userId # last'.userId
    \/ CreateOrder /\ Field(last'.insertOrder, "status") = "pending"
                   /\ last'.insertOrder.totalAmount = 10
    \/ UpdateOrderStatus

SpecBuckets == Init(MaxBucketCalls) /\ [][NextBuckets]_vars

NextShare ==
    \/ CreateUser
    \/ CreateCatalogue
    \/ UpdateStoreStats /\ DOMAIN last'.statsUpdate = {}
    \/ PostCatalogueShare

SpecShare == Init(MaxShareCalls) /\ [][NextShare]_vars

NextLimit ==
    \/ CreateOrder /\ Field(last'.insertOrder, "status") = "pending"
    \/ GetOrders
    \/ GetRecentOrders
    \/ GetOrdersRoute
    \/ GetRecentOrdersRoute

SpecLimit == Init(MaxLimitCalls) /\ [][NextLimit]_vars

NextPut ==
    \/ CreateProduct /\ last'.insertProduct.userId = 1
    \/ DeleteProduct
    \/ CreateCatalogue /\ last'.insertCatalogue.userId = 1
                       /\ store.catalogueId <= MaxPutCatalogues
    \/ AddProductToCatalogue
    \/ PutCatalogue

SpecPut == Init(MaxPutCalls) /\ [][NextPut]_vars

NextMissing ==
    \/ CreateProduct
    \/ DeleteProduct
    \/ CreateCatalogue
    \/ CreateOrder /\ "status" \notin DOMAIN last'.insertOrder
    \/ UpdateStoreSettings
    \/ UpdateProduct
    \/ UpdateCategory
    \/ UpdateCatalogue
    \/ UpdateOrderStatus

SpecMissing == Init(MaxMissingCalls) /\ [][NextMissing]_vars

-----------------------------------------------------------------------------
(* Calls in flight.  An async method runs up to an `await` in one step and   *)
(* goes on in a later step, after steps of the other calls in flight.  What  *)
(* it read before the await stays in its local variables: an object of the  *)
(* store (a StoreStats or Order value, never mutated once stored) or a       *)
(* reference to a catalogue object.                                          *)

Idle == tasks = <<>>

RemoveAt(seq, i) == SubSeq(seq, 1, i - 1) \o SubSeq(seq, i + 1, Len(seq))

\* the calls in flight on catalogue id are marked as overlapping another one
MarkOverlap(ts, id) ==
    [i \in 1..Len(ts) |-> IF ts[i].id = id THEN [ts[i] EXCEPT !.overlap = TRUE] ELSE ts[i]]

\* the history of the calls started since no call was in flight
Started(tr, s, ts, call) ==
    IF ts = <<>>
    THEN [tr EXCEPT !.base = s, !.calls = << call >>]
    ELSE [tr EXCEPT !.calls = Append(@, call)]

\* incrementCatalogueViewCount up to `await this.getCatalogue(id)`
StartIncrementCatalogueViewCount ==
    /\ budget > 0
    /\ Len(tasks) < MaxInFlight
    /\ \E id \in 1..store.catalogueId :
          tasks' = Append(MarkOverlap(tasks, id),
                          [op |-> "incrementCatalogueViewCount", id |-> id,
                           found |-> getCatalogue(store, id),
                           overlap |-> \E i \in 1..Len(tasks) : tasks[i].id = id])
    /\ budget' = budget - 1
    /\ UNCHANGED <<store, now, last, fresh, trace>>

\* incrementCatalogueViewCount after the await
ResumeIncrementCatalogueViewCount ==
    /\ \E i \in 1..Len(tasks) :
          LET task == tasks[i]
              s1 == incrementCatalogueViewCountWrite(store, task.id, task.found)
          IN  /\ task.op = "incrementCatalogueViewCount"
              /\ tasks' = RemoveAt(tasks, i)
              /\ store' = IF tasks' = <<>> THEN Canon(s1) ELSE s1
              /\ last' = [op |-> "incrementCatalogueViewCount", id |-> task.id,
                          pre |-> store, overlap |-> task.overlap]
              /\ trace' = IF IsSome(task.found) THEN CountView(trace, task.id) ELSE trace
    /\ UNCHANGED <<now, budget, fresh>>

NextViews ==
    \/ Idle /\ CreateCatalogue
    \/ Idle /\ UpdateCatalogue
    \/ Idle /\ DeleteCatalogue
    \/ StartIncrementCatalogueViewCount
    \/ ResumeIncrementCatalogueViewCount

SpecViews == Init(MaxViewCalls) /\ [][NextViews]_vars

\* createProduct up to `await this.getStoreStats(insertProduct.userId)`
StartCreateProduct ==
    /\ budget > 0
    /\ Len(tasks) < MaxInFlight
    /\ \E userId \in UserIds :
          LET insertProduct == InsertProduct(userId)
              c == createProductStore(store, insertProduct, now)
          IN  /\ store' = c.s
              /\ tasks' = Append(tasks, [op |-> "createProduct", pc |-> "getStoreStats",
                                         userId |-> userId,
                                         stats |-> getStoreStats(c.s, userId)])
              /\ trace' = Assigned(Started(trace, store, tasks,
                                           [op |-> "createProduct",
                                            insertProduct |-> insertProduct]),
                                   "Product", c.r.id)
    /\ budget' = budget - 1
    /\ UNCHANGED <<now, last, fresh>>

\* createOrder up to `await this.getStoreStats(insertOrder.userId)`
StartCreateOrder ==
    /\ budget > 0
    /\ Len(tasks) < MaxInFlight
    /\ \E userId \in UserIds, amount \in Amounts :
          LET insertOrder == InsertOrder(userId, amount, "pending")
              items == ItemsFor(amount)
              c == createOrderStore(store, insertOrder, items, now)
          IN  /\ store' = c.s
              /\ tasks' = Append(tasks, [op |-> "createOrder", pc |-> "getStoreStats",
                                         userId |-> userId, insertOrder |-> insertOrder,
                                         stats |-> getStoreStats(c.s, userId)])
              /\ trace' = Assigned(Started(trace, store, tasks,
                                           [op |-> "createOrder",
                                            insertOrder |-> insertOrder, items |-> items]),
                                   "Order", c.r.id)
    /\ budget' = budget - 1
    /\ UNCHANGED <<now, last, fresh>>

\* updateOrderStatus up to `await this.getOrder(id)`
StartUpdateOrderStatus ==
    /\ budget > 0
    /\ Len(tasks) < MaxInFlight
    /\ \E id \in 1..store.orderId, status \in Statuses :
          /\ tasks' = Append(tasks, [op |-> "updateOrderStatus", pc |-> "getOrder",
                                     id |-> id, status |-> status,
                                     found |-> getOrder(store, id)])
          /\ trace' = Started(trace, store, tasks,
                              [op |-> "updateOrderStatus", id |-> id, status |-> status])
    /\ budget' = budget - 1
    /\ UNCHANGED <<store, now, last, fresh>>

\* incrementCatalogueShareCount up to `await this.getCatalogue(id)`
StartIncrementCatalogueShareCount ==
    /\ budget > 0
    /\ Len(tasks) < MaxInFlight
    /\ \E id \in 1..store.catalogueId :
          /\ tasks' = Append(tasks, [op |-> "incrementCatalogueShareCount",
                                     pc |-> "getCatalogue", id |-> id,
                                     found |-> getCatalogue(store, id)])
          /\ trace' = Started(trace, store, tasks,
                              [op |-> "incrementCatalogueShareCount", id |-> id])
    /\ budget' = budget - 1
    /\ UNCHANGED <<store, now, last, fresh>>

\* a call in flight returns
Return(i, s) ==
    /\ tasks' = RemoveAt(tasks, i)
    /\ store' = IF tasks' = <<>> THEN Canon(s) ELSE s
    /\ last' = [op |-> tasks[i].op, pre |-> store]

\* updateOrderStatus from `await this.getOrder(id)` to `await this.getStoreStats(...)`
ResumeAfterGetOrder ==
    /\ \E i \in 1..Len(tasks) :
          LET task == tasks[i]
          IN  /\ task.pc = "getOrder"
              /\ IF ~IsSome(task.found)
                 THEN Return(i, store)
                 ELSE LET order == Val(task.found)
                          c == updateOrderStatusStore(store, task.id, task.status, order, now)
                      IN  /\ store' = c.s
                          /\ tasks' = [tasks EXCEPT ![i] =
                                 [op |-> task.op, pc |-> "getStoreStats",
                                  userId |-> order.userId,
                                  oldStatus |-> Field(order, "status"),
                                  status |-> task.status,
                                  stats |-> getStoreStats(c.s, order.userId)]]
                          /\ UNCHANGED last
    /\ UNCHANGED <<now, budget, fresh, trace>>

\* incrementCatalogueShareCount from `await this.getCatalogue(id)` to
\* `await this.getStoreStats(catalogue.userId)`
ResumeAfterGetCatalogue ==
    /\ \E i \in 1..Len(tasks) :
          LET task == tasks[i]
          IN  /\ task.pc = "getCatalogue"
              /\ IF ~IsSome(task.found)
                 THEN Return(i, store)
                 ELSE LET s1 == incrementCatalogueShareCountWrite(store, task.id, task.found)
                          userId == s1.heap[Val(task.found)].userId
                      IN  /\ store' = s1
                          /\ tasks' = [tasks EXCEPT ![i] =
                                 [op |-> task.op, pc |-> "getStoreStats", userId |-> userId,
                                  stats |-> getStoreStats(s1, userId)]]
                          /\ UNCHANGED last
    /\ UNCHANGED <<now, budget, fresh, trace>>

\* the statsUpdate a call builds from the stats its getStoreStats gave
StatsUpdateOf(task) ==
    IF task.op = "createProduct" THEN createProductStatsUpdate(Val(task.stats))
    ELSE IF task.op = "createOrder"
    THEN createOrderStatsUpdate(Val(task.stats), task.insertOrder)
    ELSE IF task.op = "updateOrderStatus"
    THEN orderStatusStatsUpdate(Val(task.stats), task.oldStatus, task.status)
    ELSE shareStatsUpdate(Val(task.stats))

\* a call from `await this.getStoreStats(userId)` into updateStoreStats, up to the
\* `await this.getStoreStats(userId)` there
ResumeAfterGetStoreStats ==
    /\ \E i \in 1..Len(tasks) :
          LET task == tasks[i]
          IN  /\ task.pc = "getStoreStats"
              /\ IF ~IsSome(task.stats)
                 THEN Return(i, store)
                 ELSE /\ tasks' = [tasks EXCEPT ![i] =
                             [op |-> task.op, pc |-> "updateStoreStats",
                              userId |-> task.userId,
                              statsUpdate |-> StatsUpdateOf(task),
                              found |-> getStoreStats(store, task.userId)]]
                      /\ UNCHANGED <<store, last>>
    /\ UNCHANGED <<now, budget, fresh, trace>>

\* updateStoreStats after its await, and the return of the call that made it
ResumeUpdateStoreStats ==
    /\ \E i \in 1..Len(tasks) :
          LET task == tasks[i]
          IN  /\ task.pc = "updateStoreStats"
              /\ Return(i, updateStoreStatsWrite(store, task.userId, task.statsUpdate,
                                                 task.found, now))
    /\ UNCHANGED <<now, budget, fresh, trace>>

NextStats ==
    \/ Idle /\ CreateCatalogue
    \/ StartCreateProduct
    \/ StartCreateOrder
    \/ StartUpdateOrderStatus
    \/ StartIncrementCatalogueShareCount
    \/ ResumeAfterGetOrder
    \/ ResumeAfterGetCatalogue
    \/ ResumeAfterGetStoreStats
    \/ ResumeUpdateStoreStats

SpecStats == Init(MaxStatsCalls) /\ [][NextStats]_vars

\* updateStoreStats, called on its own, up to `await this.getStoreStats(userId)`
StartUpdateStoreStats ==
    /\ budget > 0
    /\ Len(tasks) < MaxInFlight
    /\ \E userId \in UserIds, statsUpdate \in StatsUpdates :
          /\ tasks' = Append(tasks, [op |-> "updateStoreStats", pc |-> "updateStoreStats",
                                     userId |-> userId, statsUpdate |-> statsUpdate,
                                     found |-> getStoreStats(store, userId)])
          /\ trace' = Started(trace, store, tasks,
                              [op |-> "updateStoreStats", userId |-> userId,
                               statsUpdate |-> statsUpdate])
    /\ budget' = budget - 1
    /\ UNCHANGED <<store, now, last, fresh>>

NextRecords ==
    \/ StartUpdateStoreStats
    \/ StartCreateProduct
    \/ ResumeAfterGetStoreStats
    \/ ResumeUpdateStoreStats

SpecRecords == Init(MaxRecordCalls) /\ [][NextRecords]_vars

-----------------------------------------------------------------------------
(* Order status buckets of StoreStats *)

BucketFields == {"pendingOrders", "processingOrders", "completedOrders", "cancelledOrders"}

CounterFields ==
    BucketFields \cup {"totalRevenue", "totalOrders", "cataloguesShared", "totalProducts",
                       "revenueChange", "ordersChange", "sharesChange", "productsChange"}

\* the StoreStats counter an order status is counted in
Bucket(status) ==
    IF status = "pending" THEN "pendingOrders"
    ELSE IF status = "processing" THEN "processingOrders"
    ELSE IF status \in {"shipped", "delivered"} THEN "completedOrders"
    ELSE IF status = "cancelled" THEN "cancelledOrders"
    ELSE "none"

\* the last call was updateOrderStatus on an existing order whose owner had a StoreStats record
StatusChanged ==
    /\ last.op = "updateOrderStatus"
    /\ IsSome(getOrder(last.pre, last.id))
    /\ IsSome(getStoreStats(last.pre, Val(getOrder(last.pre, last.id)).userId))

LastOrder == Val(getOrder(last.pre, last.id))
LastOldStatus == Field(LastOrder, "status")
StatsBefore == Val(getStoreStats(last.pre, LastOrder.userId))
StatsAfter == Val(getStoreStats(store, LastOrder.userId))

\* the store after updateOrderStatus(id, "processing"), (id, "shipped"), (id, "delivered") in a row
AfterFulfilment(s, id) ==
    updateOrderStatus(
        updateOrderStatus(
            updateOrderStatus(s, id, "processing", now).s,
            id, "shipped", now).s,
        id, "delivered", now).s

\* C1: an updateOrderStatus whose old and new status are counted in the same bucket
\* leaves the four bucket counters as they were, and taking a pending order through
\* processing, shipped, delivered ends with pendingOrders - 1, processingOrders
\* unchanged and completedOrders + 1.
C1_SameBucketLeavesCounters ==
    /\ (StatusChanged /\ Bucket(LastOldStatus) = Bucket(last.status))
            => \A f \in BucketFields : StatsAfter[f] = StatsBefore[f]
    /\ \A i \in 1..Len(store.orders) :
            LET order == store.orders[i].v
                before == getStoreStats(store, order.userId)
                after == getStoreStats(AfterFulfilment(store, order.id), order.userId)
            IN  (Field(order, "status") = "pending" /\ IsSome(before))
                    => /\ Val(after).pendingOrders = Val(before).pendingOrders - 1
                       /\ Val(after).processingOrders = Val(before).processingOrders
                       /\ Val(after).completedOrders = Val(before).completedOrders + 1
                       /\ Val(after).cancelledOrders = Val(before).cancelledOrders

\* C2: createOrder stores and returns the order with status "pending" whatever
\* status the input supplies.
C2_CreatedPending ==
    (last.op = "createOrder" /\ "status" \in DOMAIN last.insertOrder)
        => /\ Field(last.result, "status") = "pending"
           /\ Field(Val(getOrder(store, last.result.id)), "status") = "pending"

\* C3: an updateOrderStatus between statuses of different buckets takes 1 from the
\* old status' bucket, adds 1 to the new status' bucket and leaves every other
\* counter of the owner's StoreStats unchanged.
C3_BucketMove ==
    (StatusChanged /\ LastOldStatus \in Statuses
        /\ Bucket(LastOldStatus) # Bucket(last.status))
        => /\ StatsAfter[Bucket(LastOldStatus)] = StatsBefore[Bucket(LastOldStatus)] - 1
           /\ StatsAfter[Bucket(last.status)] = StatsBefore[Bucket(last.status)] + 1
           /\ \A f \in CounterFields \ {Bucket(LastOldStatus), Bucket(last.status)} :
                  StatsAfter[f] = StatsBefore[f]

C3_Witness ==
    /\ StatusChanged
    /\ LastOldStatus = "pending"
    /\ last.status = "shipped"
    /\ StatsAfter.completedOrders = StatsBefore.completedOrders + 1

\* C4: from a zeroed StoreStats record of a userId, N createOrder calls for that
\* userId with amounts a1..aN give totalOrders = N, totalRevenue = a1 + ... + aN
\* and pendingOrders = N.
C4_StatsAdditivity ==
    \A u \in UserIds :
        fresh[u].state = "zeroed"
            => /\ IsSome(getStoreStats(store, u))
               /\ Val(getStoreStats(store, u)).totalOrders = fresh[u].n
               /\ Val(getStoreStats(store, u)).totalRevenue = fresh[u].sum
               /\ Val(getStoreStats(store, u)).pendingOrders = fresh[u].n

C4_Witness ==
    \E u \in UserIds :
        /\ fresh[u].state = "zeroed"
        /\ fresh[u].n = 2
        /\ fresh[u].sum = 35
        /\ last.op = "createOrder"

-----------------------------------------------------------------------------
(* The Catalogue-Product association *)

Rows(s) == MapValues(s.catalogueProducts)

RowsOf(s, catalogueId) == SelectSeq(Rows(s), LAMBDA cp : cp.catalogueId = catalogueId)

RowsNotOf(s, catalogueId) == SelectSeq(Rows(s), LAMBDA cp : cp.catalogueId # catalogueId)

HasRow(s, catalogueId, productId) ==
    \E i \in 1..Len(Rows(s)) :
        Rows(s)[i].catalogueId = catalogueId /\ Rows(s)[i].productId = productId

\* C5: catalogueProducts holds at most one row per (catalogueId, productId); a
\* second addProductToCatalogue of a pair changes nothing; getProductsInCatalogue
\* lists every associated product once.
C5_OneRowPerPair ==
    /\ \A i, j \in 1..Len(Rows(store)) :
           (Rows(store)[i].catalogueId = Rows(store)[j].catalogueId
               /\ Rows(store)[i].productId = Rows(store)[j].productId) => i = j
    /\ (last.op = "addProductToCatalogue"
           /\ HasRow(last.pre, last.catalogueId, last.productId)) => store = last.pre
    /\ last.op = "getProductsInCatalogue"
           => /\ \A i, j \in 1..Len(last.result) :
                     last.result[i].id = last.result[j].id => i = j
              /\ {last.result[i].id : i \in 1..Len(last.result)}
                     = {id \in 1..store.productId :
                           /\ HasRow(store, last.catalogueId, id)
                           /\ IsSome(getProduct(store, id))}

C5_Witness ==
    /\ last.op = "addProductToCatalogue"
    /\ HasRow(last.pre, last.catalogueId, last.productId)
    /\ Len(getProductsInCatalogue(store, last.catalogueId)) = 1

\* C6: after deleteCatalogue(id) no row of catalogue id remains,
\* getProductsInCatalogue(id) is empty, and the rows of the other catalogues are
\* as they were.
C6_DeleteCascades ==
    last.op = "deleteCatalogue"
        => /\ RowsOf(store, last.id) = <<>>
           /\ getProductsInCatalogue(store, last.id) = <<>>
           /\ Rows(store) = RowsNotOf(last.pre, last.id)

C6_Witness ==
    /\ last.op = "deleteCatalogue"
    /\ last.result = TRUE
    /\ Len(RowsOf(last.pre, last.id)) >= 1
    /\ Len(Rows(store)) >= 1

-----------------------------------------------------------------------------
(* Identifiers *)

\* the counter the ids of a type are taken from
Counter(s, type) ==
    IF type = "User" THEN s.userId
    ELSE IF type = "Product" THEN s.productId
    ELSE IF type = "Category" THEN s.categoryId
    ELSE IF type = "Catalogue" THEN s.catalogueId
    ELSE s.orderId

\* the ids of the records of a type now in the store, in the Map's order
StoredIds(s, type) ==
    IF type = "User" THEN MapKeys(s.users)
    ELSE IF type = "Product" THEN MapKeys(s.products)
    ELSE IF type = "Category" THEN MapKeys(s.categories)
    ELSE IF type = "Catalogue" THEN MapKeys(s.catalogues)
    ELSE MapKeys(s.orders)

\* C11: the ids assigned to the records of each type are 1, 2, 3, ... in creation
\* order, so none is assigned twice, also after the record holding it was deleted;
\* the stored records carry distinct assigned ids, and a type's sequence does not
\* depend on the other types' counters.
C11_SequentialIds ==
    \A type \in EntityTypes :
        /\ \A k \in 1..Len(trace.ids[type]) : trace.ids[type][k] = k
        /\ Counter(store, type) = Len(trace.ids[type]) + 1
        /\ \A i, j \in 1..Len(StoredIds(store, type)) :
               /\ StoredIds(store, type)[i] \in Range(trace.ids[type])
               /\ StoredIds(store, type)[i] = StoredIds(store, type)[j] => i = j

C11_Witness ==
    /\ last.op = "createProduct"
    /\ last.result.id = 2
    /\ MapKeys(store.products) = << 2 >>
    /\ trace.ids["Category"] = << 1, 2, 3, 4, 5 >>
    /\ trace.ids["Order"] = <<>>

\* the places of the OrderItems: << index of the list in orderItems, index in the list >>
OrderItemPlaces(s) ==
    { p \in (1..Len(s.orderItems)) \X (1..s.orderItemId) : p[2] <= Len(s.orderItems[p[1]].v) }

OrderItemAt(s, p) == s.orderItems[p[1]].v[p[2]]

\* C12: no two OrderItems of the store share an id, whether of one order or of two,
\* and each OrderItem's orderId is the id of the order it was created with.
C12_OrderItemIds ==
    /\ \A p, q \in OrderItemPlaces(store) :
           OrderItemAt(store, p).id = OrderItemAt(store, q).id => p = q
    /\ \A p \in OrderItemPlaces(store) :
           OrderItemAt(store, p).orderId = store.orderItems[p[1]].k

-----------------------------------------------------------------------------
(* Calls in flight together *)

\* C7: every existing catalogue's viewCount is the number of
\* incrementCatalogueViewCount calls completed on it, also when the calls were in
\* flight together; once none is in flight, k calls have added exactly k.
C7_NoLostView ==
    \A i \in 1..Len(store.catalogues) :
        store.heap[store.catalogues[i].v].viewCount = ViewCalls(trace, store.catalogues[i].k)

C7_Witness ==
    /\ Idle
    /\ last.op = "incrementCatalogueViewCount"
    /\ last.overlap
    /\ IsSome(getCatalogue(store, last.id))
    /\ store.heap[Val(getCatalogue(store, last.id))].viewCount = 3

\* one call run to completion on its own
RunCall(s, call, t) ==
    IF call.op = "createProduct" THEN createProduct(s, call.insertProduct, t).s
    ELSE IF call.op = "createOrder" THEN createOrder(s, call.insertOrder, call.items, t).s
    ELSE IF call.op = "updateOrderStatus" THEN updateOrderStatus(s, call.id, call.status, t).s
    ELSE IF call.op = "updateStoreStats"
    THEN updateStoreStats(s, call.userId, call.statsUpdate, t)
    ELSE incrementCatalogueShareCount(s, call.id, t)

RECURSIVE RunSerial(_, _, _, _, _)
\* the calls run one after the other in the given order, from the k-th on
RunSerial(s, calls, order, k, t) ==
    IF k > Len(calls)
    THEN s
    ELSE RunSerial(RunCall(s, calls[order[k]], t), calls, order, k + 1, t)

\* C8: once no call is in flight, the StoreStats are those of running the calls
\* that were in flight together one after the other, in some order.
C8_FacadeAtomic ==
    Idle => \E order \in Permutations(1..Len(trace.calls)) :
                RunSerial(trace.base, trace.calls, order, 1, now).stats = store.stats

-----------------------------------------------------------------------------
(* Popular catalogues *)

\* the catalogue objects in the Map's order
AllCatalogues(s) == [i \in 1..Len(s.catalogues) |-> s.heap[s.catalogues[i].v]]

\* C9: getPopularCatalogues(userId, limit) gives only catalogues of userId, at most
\* limit of them (3 when no limit is passed), by viewCount descending with equal
\* viewCounts in insertion order, and no omitted catalogue of the user has more
\* views than a returned one.
C9_PopularOrdering ==
    last.op = "getPopularCatalogues"
        => LET res == last.result
               all == AllCatalogues(store)
               Pos(c) == CHOOSE i \in 1..Len(all) : all[i] = c
           IN  /\ \A i \in 1..Len(res) : res[i] \in Range(all) /\ res[i].userId = last.userId
               /\ Len(res) <= EffectiveLimit(last.limit)
               /\ \A i, j \in 1..Len(res) :
                      i < j => /\ res[i].viewCount >= res[j].viewCount
                               /\ res[i].viewCount = res[j].viewCount
                                      => Pos(res[i]) < Pos(res[j])
               /\ \A c \in Range(all) :
                      (c.userId = last.userId /\ c \notin Range(res))
                          => \A i \in 1..Len(res) : c.viewCount <= res[i].viewCount

C9_Witness ==
    /\ last.op = "getPopularCatalogues"
    /\ last.limit = Some(2)
    /\ Len(last.result) = 2
    /\ Len(getCatalogues(store, last.userId)) = 3
    /\ last.result[1].viewCount = last.result[2].viewCount
    /\ last.result[1].viewCount > 0

-----------------------------------------------------------------------------
(* Partial updates *)

\* the record stored under id in a Map of records
RecordAt(m, id) == Val(MapGet(m, id))

\* post is pre with exactly the fields of patch replaced
Merged(pre, patch, post) ==
    /\ DOMAIN post = DOMAIN pre \cup DOMAIN patch
    /\ \A f \in DOMAIN patch : post[f] = patch[f]
    /\ \A f \in DOMAIN pre \ DOMAIN patch : post[f] = pre[f]

\* the Maps m0 and m1 hold the same keys in the same order, and the same records
\* except under id
SameButAt(m0, m1, id) ==
    /\ MapKeys(m0) = MapKeys(m1)
    /\ \A i \in 1..Len(m0) : m0[i].k # id => m0[i].v = m1[i].v

\* C10: updateProduct, updateCategory and updateCatalogue on an existing id replace
\* exactly the fields of the partial input and leave the record's other fields,
\* the other records and the rest of the store unchanged.
C10_PartialUpdate ==
    /\ (last.op = "updateProduct" /\ MapHas(last.pre.products, last.id))
           => /\ Merged(RecordAt(last.pre.products, last.id), last.patch,
                        RecordAt(store.products, last.id))
              /\ SameButAt(last.pre.products, store.products, last.id)
              /\ [store EXCEPT !.products = last.pre.products] = last.pre
    /\ (last.op = "updateCategory" /\ MapHas(last.pre.categories, last.id))
           => /\ Merged(RecordAt(last.pre.categories, last.id), last.patch,
                        RecordAt(store.categories, last.id))
              /\ SameButAt(last.pre.categories, store.categories, last.id)
              /\ [store EXCEPT !.categories = last.pre.categories] = last.pre
    /\ (last.op = "updateCatalogue" /\ MapHas(last.pre.catalogues, last.id))
           => LET before == [i \in 1..Len(last.pre.catalogues) |->
                                [k |-> last.pre.catalogues[i].k,
                                 v |-> AllCatalogues(last.pre)[i]]]
                  after == [i \in 1..Len(store.catalogues) |->
                               [k |-> store.catalogues[i].k, v |-> AllCatalogues(store)[i]]]
              IN  /\ Merged(RecordAt(before, last.id), last.patch, RecordAt(after, last.id))
                  /\ SameButAt(before, after, last.id)
                  /\ [store EXCEPT !.catalogues = last.pre.catalogues,
                                   !.heap = last.pre.heap] = last.pre

C10_Witness ==
    /\ last.op = "updateCatalogue"
    /\ MapHas(last.pre.catalogues, last.id)
    /\ last.patch = [name |-> "winter"]
    /\ Val(last.result).name = "winter"
    /\ Val(last.result).viewCount = 1
    /\ Len(store.products) + Len(store.catalogues) = 2

-----------------------------------------------------------------------------
(* Updates of a missing target *)

\* the last call was an update by id of a record that was not in its Map
MissingTarget ==
    \/ last.op = "updateProduct" /\ ~MapHas(last.pre.products, last.id)
    \/ last.op = "updateCategory" /\ ~MapHas(last.pre.categories, last.id)
    \/ last.op = "updateCatalogue" /\ ~MapHas(last.pre.catalogues, last.id)
    \/ last.op = "updateOrderStatus" /\ ~MapHas(last.pre.orders, last.id)

MissingUser == last.op = "updateStoreSettings" /\ ~MapHas(last.pre.users, last.userId)

\* C13: updateStoreSettings for a userId without user throws; updateProduct,
\* updateCategory, updateCatalogue and updateOrderStatus for an absent id return
\* undefined; in the five cases the store is left as it was.
C13_MissingTarget ==
    /\ MissingUser => last.threw /\ store = last.pre
    /\ MissingTarget => last.result = None /\ store = last.pre

C13_Witness ==
    /\ MissingUser
    /\ last.threw
    /\ Len(store.orders) = 1
    /\ Len(store.products) = 1

-----------------------------------------------------------------------------
(* Association rows of deleted products *)

\* the ids of the products that catalogue catalogueId has a row for and that exist
LiveProductIds(s, catalogueId) ==
    {id \in 1..s.productId : HasRow(s, catalogueId, id) /\ MapHas(s.products, id)}

\* C14: deleteProduct leaves catalogueProducts as it was, and getProductsInCatalogue
\* gives exactly the products that still exist among those the catalogue has a row
\* for, each as stored, without failing on a row whose product is gone.
C14_DanglingRows ==
    /\ last.op = "deleteProduct" => store.catalogueProducts = last.pre.catalogueProducts
    /\ last.op = "getProductsInCatalogue"
           => /\ Range(last.result)
                     = {RecordAt(store.products, id) : id \in LiveProductIds(store, last.catalogueId)}
              /\ Len(last.result) = Cardinality(LiveProductIds(store, last.catalogueId))

C14_Witness ==
    /\ last.op = "getProductsInCatalogue"
    /\ HasRow(store, last.catalogueId, 1)
    /\ HasRow(store, last.catalogueId, 2)
    /\ store.productId = 3
    /\ ~MapHas(store.products, 1)
    /\ Len(last.result) = 1
    /\ last.result[1].id = 2

-----------------------------------------------------------------------------
(* StoreStats kept by the facade calls *)

\* the last call was a createProduct, a createOrder or an incrementCatalogueShareCount
\* of an existing catalogue
StatsEvent ==
    \/ last.op \in {"createProduct", "createOrder"}
    \/ last.op = "incrementCatalogueShareCount" /\ MapHas(last.pre.catalogues, last.id)

\* the userId the last call's StoreStats belong to
EventUser ==
    IF last.op = "createProduct" THEN last.insertProduct.userId
    ELSE IF last.op = "createOrder" THEN last.insertOrder.userId
    ELSE last.pre.heap[Val(getCatalogue(last.pre, last.id))].userId

\* what the last call adds to each counter
EventDelta(f) ==
    IF last.op = "createProduct"
    THEN (IF f \in {"totalProducts", "productsChange"} THEN 1 ELSE 0)
    ELSE IF last.op = "createOrder"
    THEN (IF f \in {"totalOrders", "ordersChange", "pendingOrders"} THEN 1
          ELSE IF f = "totalRevenue" THEN last.insertOrder.totalAmount ELSE 0)
    ELSE (IF f \in {"cataloguesShared", "sharesChange"} THEN 1 ELSE 0)

\* C15: when the userId has no StoreStats record, a createProduct, createOrder or
\* incrementCatalogueShareCount for it creates one, with the call's deltas applied
\* to zero counters, so getStoreStats(userId) gives a record afterwards.
C15_LazyStats ==
    (StatsEvent /\ ~IsSome(getStoreStats(last.pre, EventUser)))
        => /\ IsSome(getStoreStats(store, EventUser))
           /\ \A f \in CounterFields : Val(getStoreStats(store, EventUser))[f] = EventDelta(f)

\* C16: no two StoreStats records of the store are of the same userId, also after
\* updateStoreStats calls for a userId without record were in flight together.
C16_OneStatsPerUser ==
    \A i, j \in 1..Len(store.stats) :
        store.stats[i].v.userId = store.stats[j].v.userId => i = j

\* the StoreStats records of the users other than userId, in the Map's order
StatsOfOthers(s, userId) == SelectSeq(MapValues(s.stats), LAMBDA st : st.userId # userId)

\* C17: a createOrder for a userId that has a StoreStats record adds 1 to
\* totalOrders, ordersChange and pendingOrders and the order's totalAmount to
\* totalRevenue, and leaves processingOrders, completedOrders, cancelledOrders,
\* totalProducts, cataloguesShared and the other users' records as they were.
C17_OrderCreatedDeltas ==
    (last.op = "createOrder" /\ IsSome(getStoreStats(last.pre, last.insertOrder.userId)))
        => LET userId == last.insertOrder.userId
               before == Val(getStoreStats(last.pre, userId))
               after == Val(getStoreStats(store, userId))
           IN  /\ after.totalOrders = before.totalOrders + 1
               /\ after.ordersChange = before.ordersChange + 1
               /\ after.totalRevenue = before.totalRevenue + last.insertOrder.totalAmount
               /\ after.pendingOrders = before.pendingOrders + 1
               /\ \A f \in {"processingOrders", "completedOrders", "cancelledOrders",
                             "totalProducts", "cataloguesShared"} : after[f] = before[f]
               /\ StatsOfOthers(store, userId) = StatsOfOthers(last.pre, userId)

C17_Witness ==
    /\ last.op = "createOrder"
    /\ last.insertOrder.userId = 1
    /\ last.insertOrder.totalAmount = 25
    /\ Val(getStoreStats(store, 1)).totalRevenue = DemoStats.totalRevenue + 35
    /\ IsSome(getStoreStats(store, 2))

\* C18: a createProduct for a userId that has a StoreStats record adds 1 to
\* totalProducts and to productsChange and leaves the other counters as they were;
\* deleteProduct and updateProduct leave every StoreStats record as it was.
C18_ProductDeltas ==
    /\ (last.op = "createProduct" /\ IsSome(getStoreStats(last.pre, last.insertProduct.userId)))
           => LET before == Val(getStoreStats(last.pre, last.insertProduct.userId))
                  after == Val(getStoreStats(store, last.insertProduct.userId))
              IN  /\ after.totalProducts = before.totalProducts + 1
                  /\ after.productsChange = before.productsChange + 1
                  /\ \A f \in CounterFields \ {"totalProducts", "productsChange"} :
                         after[f] = before[f]
    /\ last.op \in {"deleteProduct", "updateProduct"} => store.stats = last.pre.stats

C18_Witness ==
    /\ last.op = "deleteProduct"
    /\ last.result = TRUE
    /\ getProducts(store, 1) = <<>>
    /\ Val(getStoreStats(store, 1)).totalProducts = DemoStats.totalProducts + 2

\* the counters of userId's StoreStats record, all zero when there is no record
CountersOf(s, userId) ==
    IF IsSome(getStoreStats(s, userId))
    THEN Val(getStoreStats(s, userId))
    ELSE ZeroStats(0, userId, 0)

\* the last call was an incrementCatalogueViewCount or incrementCatalogueShareCount
CountedCatalogue == last.op \in {"incrementCatalogueViewCount", "incrementCatalogueShareCount"}

\* C19: incrementCatalogueShareCount on an existing catalogue adds 1 to its
\* shareCount and 1 to the owner's cataloguesShared and sharesChange;
\* incrementCatalogueViewCount adds 1 to its viewCount and changes nothing else, no
\* StoreStats field in particular; on a missing catalogue both change nothing.
C19_ShareAndView ==
    /\ (CountedCatalogue /\ ~MapHas(last.pre.catalogues, last.id)) => store = last.pre
    /\ (CountedCatalogue /\ MapHas(last.pre.catalogues, last.id))
           => LET ref == Val(getCatalogue(last.pre, last.id))
                  owner == last.pre.heap[ref].userId
              IN  IF last.op = "incrementCatalogueViewCount"
                  THEN store = [last.pre EXCEPT !.heap[ref].viewCount = @ + 1]
                  ELSE /\ store.heap = [last.pre.heap EXCEPT ![ref].shareCount = @ + 1]
                       /\ store.catalogues = last.pre.catalogues
                       /\ CountersOf(store, owner).cataloguesShared
                              = CountersOf(last.pre, owner).cataloguesShared + 1
                       /\ CountersOf(store, owner).sharesChange
                              = CountersOf(last.pre, owner).sharesChange + 1

\* the part of C19 about catalogues whose owner has a StoreStats record, and about
\* views and missing catalogues
ShareAndViewWithRecord ==
    (CountedCatalogue /\ MapHas(last.pre.catalogues, last.id)
        /\ last.op = "incrementCatalogueShareCount"
        /\ ~IsSome(getStoreStats(last.pre,
                                 last.pre.heap[Val(getCatalogue(last.pre, last.id))].userId)))
    \/ C19_ShareAndView

-----------------------------------------------------------------------------
(* The *Change counters *)

ChangeFields == {"revenueChange", "ordersChange", "sharesChange", "productsChange"}

\* the last call was one of the calls that keep StoreStats, or a view
FacadeCall ==
    last.op \in {"createProduct", "createOrder", "updateOrderStatus",
                 "incrementCatalogueShareCount", "incrementCatalogueViewCount"}

\* every StoreStats record there was before the last call is still there, under
\* the same id, with no *Change counter lower than it was
NoChangeCounterLowered ==
    \A i \in 1..Len(last.pre.stats) :
        /\ MapHas(store.stats, last.pre.stats[i].k)
        /\ \A f \in ChangeFields :
               RecordAt(store.stats, last.pre.stats[i].k)[f] >= last.pre.stats[i].v[f]

\* the last call was a creation event of a userId that has a StoreStats record
CountedEvent == StatsEvent /\ IsSome(getStoreStats(last.pre, EventUser))

\* the *Change counter of the event's user has grown by the last call
Grown(f) ==
    Val(getStoreStats(store, EventUser))[f] > Val(getStoreStats(last.pre, EventUser))[f]

-----------------------------------------------------------------------------
(* Order status transitions *)

\* C21: updateOrderStatus of an existing order, whatever its status, gives the
\* order with the new status, stores it, leaves its id, userId, totalAmount and
\* createdAt as they were, and its updatedAt is not earlier than it was.
C21_UnguardedTransitions ==
    (last.op = "updateOrderStatus" /\ IsSome(getOrder(last.pre, last.id)))
        => LET old == Val(getOrder(last.pre, last.id))
           IN  /\ IsSome(last.result)
               /\ getOrder(store, last.id) = last.result
               /\ Val(last.result).status = last.status
               /\ \A f \in {"id", "userId", "totalAmount", "createdAt"} :
                      Val(last.result)[f] = old[f]
               /\ Val(last.result).updatedAt >= old.updatedAt

C21_Witness ==
    /\ last.op = "updateOrderStatus"
    /\ IsSome(getOrder(last.pre, last.id))
    /\ Val(getOrder(last.pre, last.id)).status = "cancelled"
    /\ last.status = "processing"
    /\ Val(last.result).updatedAt > Val(getOrder(last.pre, last.id)).updatedAt

-----------------------------------------------------------------------------
(* Listing orders *)

\* the orders of userId in the store
OrdersOf(s, userId) == {o \in Range(MapValues(s.orders)) : o.userId = userId}

\* res lists orders of the store owned by userId, none twice, newest first
NewestFirst(res, userId) ==
    /\ \A i \in 1..Len(res) : res[i] \in OrdersOf(store, userId)
    /\ \A i, j \in 1..Len(res) :
           /\ res[i] = res[j] => i = j
           /\ i < j => res[i].createdAt >= res[j].createdAt

\* C22: getOrders gives orders of userId only, newest first, and all of them when no
\* limit is passed; getRecentOrders without limit gives the 5 newest, or all when
\* the user has fewer.
C22_OrderListing ==
    /\ last.op = "getOrders"
           => /\ NewestFirst(last.result, last.userId)
              /\ last.limit = None => Range(last.result) = OrdersOf(store, last.userId)
    /\ (last.op = "getRecentOrders" /\ last.limit = None)
           => /\ NewestFirst(last.result, last.userId)
              /\ Len(last.result)
                     = Min(DefaultRecentLimit, Cardinality(OrdersOf(store, last.userId)))
              /\ \A o \in OrdersOf(store, last.userId) \ Range(last.result) :
                     \A i \in 1..Len(last.result) : o.createdAt <= last.result[i].createdAt

C22_Witness ==
    /\ last.op = "getRecentOrders"
    /\ last.limit = None
    /\ Len(last.result) = 5
    /\ Cardinality(OrdersOf(store, last.userId)) = 6
    /\ last.result[1].createdAt > last.result[5].createdAt
    /\ last.result[1].id > last.result[5].id

-----------------------------------------------------------------------------
(* The counts of a catalogue *)

\* the catalogue object stored under id
CatalogueAt(s, id) == s.heap[Val(getCatalogue(s, id))]

\* C23: createCatalogue gives a catalogue with viewCount 0 and shareCount 0 whatever
\* its input holds; no stored count is negative; no call lowers a count of a
\* catalogue that exists before and after it, and updateCatalogue leaves both
\* counts as they were.
C23_CatalogueCounts ==
    /\ last.op = "createCatalogue"
           => last.result.viewCount = 0 /\ last.result.shareCount = 0
    /\ \A i \in 1..Len(store.catalogues) :
           /\ CatalogueAt(store, store.catalogues[i].k).viewCount >= 0
           /\ CatalogueAt(store, store.catalogues[i].k).shareCount >= 0
    /\ last.op # "none"
           => \A i \in 1..Len(last.pre.catalogues) :
                  LET id == last.pre.catalogues[i].k
                  IN  MapHas(store.catalogues, id)
                         => /\ CatalogueAt(store, id).viewCount
                                   >= CatalogueAt(last.pre, id).viewCount
                            /\ CatalogueAt(store, id).shareCount
                                   >= CatalogueAt(last.pre, id).shareCount
    /\ (last.op = "updateCatalogue" /\ MapHas(last.pre.catalogues, last.id))
           => /\ Val(last.result).viewCount = CatalogueAt(last.pre, last.id).viewCount
              /\ Val(last.result).shareCount = CatalogueAt(last.pre, last.id).shareCount
              /\ CatalogueAt(store, last.id) = Val(last.result)

C23_Witness ==
    /\ last.op = "updateCatalogue"
    /\ MapHas(last.pre.catalogues, last.id)
    /\ DOMAIN last.patch # {}
    /\ CatalogueAt(store, last.id).viewCount = 2
    /\ CatalogueAt(store, last.id).shareCount = 1

-----------------------------------------------------------------------------
(* Removing a product from a catalogue *)

\* the association rows other than the row (catalogueId, productId)
RowsWithout(s, catalogueId, productId) ==
    SelectSeq(s.catalogueProducts,
              LAMBDA e : ~(e.v.catalogueId = catalogueId /\ e.v.productId = productId))

\* C24: removeProductFromCatalogue(c, p) removes the row (c, p) when it is there and
\* changes nothing when it is not; every other row, every product, every catalogue
\* and the rest of the store stay as they were, and a second removal of the same
\* pair changes nothing.
C24_RemoveIdempotent ==
    last.op = "removeProductFromCatalogue"
       => /\ store = [last.pre EXCEPT !.catalogueProducts =
                          RowsWithout(last.pre, last.catalogueId, last.productId)]
          /\ Len(RowsWithout(last.pre, last.catalogueId, last.productId))
                 >= Len(last.pre.catalogueProducts) - 1
          /\ ~MapHas(last.pre.catalogueProducts,
                     CatalogueProductKey(last.catalogueId, last.productId))
                 => store = last.pre
          /\ removeProductFromCatalogue(store, last.catalogueId, last.productId) = store

C24_Witness ==
    /\ last.op = "removeProductFromCatalogue"
    /\ MapHas(last.pre.catalogueProducts,
              CatalogueProductKey(last.catalogueId, last.productId))
    /\ Len(last.pre.catalogueProducts) = 2
    /\ Len(store.catalogueProducts) = 1
    /\ store.catalogueProducts[1].v.catalogueId = last.catalogueId
    /\ Len(store.products) >= 1
    /\ Len(store.catalogues) >= 1

\* the removal of a pair that has no row
C24_WitnessAbsent ==
    /\ last.op = "removeProductFromCatalogue"
    /\ ~MapHas(last.pre.catalogueProducts,
               CatalogueProductKey(last.catalogueId, last.productId))
    /\ Len(store.catalogueProducts) >= 1

-----------------------------------------------------------------------------
(* What the delete methods return *)

DeleteOps == {"deleteProduct", "deleteCategory", "deleteCatalogue"}

\* the ids under which the Map of the deleted kind holds a record
HeldIds(s, op) ==
    LET m == CASE op = "deleteProduct" -> s.products
               [] op = "deleteCategory" -> s.categories
               [] OTHER -> s.catalogues
    IN  {m[i].k : i \in 1..Len(m)}

\* the ids of the records the owner lists show, over every owner
ListedIds(s, op) ==
    LET listed(userId) ==
            CASE op = "deleteProduct" -> getProducts(s, userId)
              [] op = "deleteCategory" -> getCategories(s, userId)
              [] OTHER -> getCatalogues(s, userId)
    IN  UNION {{listed(userId)[i].id : i \in 1..Len(listed(userId))} : userId \in UserIds}

\* get of the deleted kind
GetOf(s, op, id) ==
    CASE op = "deleteProduct" -> getProduct(s, id)
      [] op = "deleteCategory" -> getCategory(s, id)
      [] OTHER -> getCatalogue(s, id)

\* the delete of the kind, run again
DeleteOf(s, op, id) ==
    CASE op = "deleteProduct" -> deleteProduct(s, id)
      [] op = "deleteCategory" -> deleteCategory(s, id)
      [] OTHER -> [s |-> Canon(deleteCatalogue(s, id).s), r |-> deleteCatalogue(s, id).r]

\* C25: deleteProduct, deleteCategory and deleteCatalogue return true exactly when a
\* record with the id was stored before the call; a delete of an id without record
\* changes nothing; after a delete, get of the id gives absence, no owner's list
\* shows the record, and a second delete of the id returns false and changes
\* nothing.
C25_DeleteReturns ==
    last.op \in DeleteOps
       => /\ last.result = (last.id \in HeldIds(last.pre, last.op))
          /\ last.result = FALSE => store = last.pre
          /\ GetOf(store, last.op, last.id) = None
          /\ last.id \notin ListedIds(store, last.op)
          /\ HeldIds(store, last.op) = HeldIds(last.pre, last.op) \ {last.id}
          /\ DeleteOf(store, last.op, last.id) = [s |-> store, r |-> FALSE]

C25_Witness ==
    /\ last.op = "deleteCatalogue"
    /\ last.result = TRUE
    /\ last.id \in ListedIds(last.pre, last.op)
    /\ ListedIds(store, last.op) # {}

\* a second delete of a product that was created and deleted before
C25_WitnessSecond ==
    /\ last.op = "deleteProduct"
    /\ last.result = FALSE
    /\ last.id < store.productId
    /\ store.products # <<>>

\* the delete of a category that is stored
C25_WitnessCategory ==
    /\ last.op = "deleteCategory"
    /\ last.result = TRUE
    /\ Len(store.categories) = Len(last.pre.categories) - 1

-----------------------------------------------------------------------------
(* The bucket counters against the orders *)

\* the number of userId's orders whose status is counted in bucket f
OrdersInBucket(s, userId, f) ==
    Cardinality({i \in 1..Len(s.orders) :
                    /\ s.orders[i].v.userId = userId
                    /\ Bucket(Field(s.orders[i].v, "status")) = f})

\* userId had no StoreStats record at the start and has one now; under SpecBuckets
\* the record was then created zeroed while userId had no orders
StartedZeroed(userId) ==
    /\ ~IsSome(getStoreStats(InitStore, userId))
    /\ IsSome(getStoreStats(store, userId))

\* C26: for a userId whose StoreStats record started zeroed, after any createOrder
\* and updateOrderStatus calls none of the four bucket counters is negative and
\* each equals the number of the user's orders whose status is counted in it.
C26_BucketsCountOrders ==
    \A userId \in UserIds :
        StartedZeroed(userId)
           => \A f \in BucketFields :
                  /\ Val(getStoreStats(store, userId))[f] >= 0
                  /\ Val(getStoreStats(store, userId))[f] = OrdersInBucket(store, userId, f)

\* the counters do count the orders until an order is moved within its bucket
C26_Reached ==
    /\ StartedZeroed(2)
    /\ OrdersInBucket(store, 2, "pendingOrders") = 1
    /\ OrdersInBucket(store, 2, "completedOrders") = 1
    /\ Val(getStoreStats(store, 2)).pendingOrders = 1
    /\ Val(getStoreStats(store, 2)).completedOrders = 1

-----------------------------------------------------------------------------
(* POST /catalogues/:id/share *)

\* the last request was a share of a catalogue that exists
ShareOfExisting ==
    /\ last.op = "postCatalogueShare"
    /\ IsSome(getCatalogue(last.pre, last.id))

\* cataloguesShared and sharesChange of userId's record, None without record
ShareCounters(s, userId) ==
    IF IsSome(getStoreStats(s, userId))
    THEN Some([cataloguesShared |-> Val(getStoreStats(s, userId)).cataloguesShared,
               sharesChange |-> Val(getStoreStats(s, userId)).sharesChange])
    ELSE None

\* C27: the shareCount in the response of a successful share request is the
\* catalogue's stored shareCount after the request, the value stored before plus 1.
C27_ResponseShareCount ==
    (last.op = "postCatalogueShare" /\ last.status = 200)
       => /\ last.body.shareCount = CatalogueAt(store, last.id).shareCount
          /\ last.body.shareCount = CatalogueAt(last.pre, last.id).shareCount + 1

\* a successful share does store the value before plus 1
C27_Reached ==
    /\ last.op = "postCatalogueShare"
    /\ last.status = 200
    /\ CatalogueAt(last.pre, last.id).shareCount = 1
    /\ CatalogueAt(store, last.id).shareCount = 2

\* C28: a share request answered 404 or 400 leaves the catalogue's shareCount and
\* its owner's cataloguesShared and sharesChange as they were.
C28_ErrorLeavesCounts ==
    (last.op = "postCatalogueShare" /\ last.status \in {404, 400})
       => /\ store.catalogues = last.pre.catalogues
          /\ IsSome(getCatalogue(last.pre, last.id))
                 => /\ CatalogueAt(store, last.id).shareCount
                           = CatalogueAt(last.pre, last.id).shareCount
                    /\ ShareCounters(store, CatalogueAt(last.pre, last.id).userId)
                           = ShareCounters(last.pre, CatalogueAt(last.pre, last.id).userId)

\* a request answered 400 for a catalogue whose owner has a StoreStats record
C28_Reached ==
    /\ ShareOfExisting
    /\ last.status = 400
    /\ IsSome(getUser(store, CatalogueAt(store, last.id).userId))
    /\ IsSome(ShareCounters(last.pre, CatalogueAt(last.pre, last.id).userId))

\* a request answered 404 changes nothing
C28_NotFoundLeavesStore ==
    (last.op = "postCatalogueShare" /\ last.status = 404) => store = last.pre

-----------------------------------------------------------------------------
(* The limit of the order listings *)

ListingOps == {"getOrders", "getRecentOrders", "getOrdersRoute", "getRecentOrdersRoute"}

\* C29: getOrders and getRecentOrders, called directly or through GET /orders and
\* GET /orders/recent, return at most limit orders for every limit passed, 0
\* included.
C29_AtMostLimit ==
    (last.op \in ListingOps /\ IsSome(last.limit))
       => Len(last.result) <= Val(last.limit)

\* a positive limit does cut the list
C29_Reached ==
    /\ last.op = "getOrdersRoute"
    /\ last.limit = Some(2)
    /\ Cardinality(OrdersOf(store, 1)) = 3
    /\ Len(last.result) = 2

\* the bound holds for every limit other than 0
C29_PositiveLimit ==
    (last.op \in ListingOps /\ IsSome(last.limit) /\ Val(last.limit) # 0)
       => Len(last.result) <= Val(last.limit)

-----------------------------------------------------------------------------
(* PUT /catalogues/:id with a productIds list *)

\* the last request was a PUT with a productIds list, answered 200
PutWithList ==
    /\ last.op = "putCatalogue"
    /\ last.status = 200
    /\ IsSome(last.productIds)

\* the association rows of catalogue id whose product is not stored
DanglingRows(s, id) ==
    {i \in 1..Len(s.catalogueProducts) :
        /\ s.catalogueProducts[i].v.catalogueId = id
        /\ ~MapHas(s.products, s.catalogueProducts[i].v.productId)}

\* C30: after a successful PUT /catalogues/:id with a productIds list P,
\* getProductsInCatalogue(id) gives exactly the stored products whose id is in P,
\* each once, whatever rows the catalogue had before, rows of deleted products
\* included.
C30_PutSetsProducts ==
    PutWithList
       => LET res == getProductsInCatalogue(store, last.id)
          IN  /\ {res[i].id : i \in 1..Len(res)}
                     = {m \in Range(Val(last.productIds)) : MapHas(store.products, m)}
              /\ \A i \in 1..Len(res) : Some(res[i]) = getProduct(store, res[i].id)
              /\ \A i, j \in 1..Len(res) : res[i].id = res[j].id => i = j
              /\ store.products = last.pre.products

\* a PUT on a catalogue that had a row of a deleted product and a row of a stored
\* product the list leaves out
C30_Witness ==
    /\ PutWithList
    /\ DanglingRows(last.pre, last.id) # {}
    /\ Len(getProductsInCatalogue(last.pre, last.id)) = 1
    /\ getProductsInCatalogue(last.pre, last.id)[1].id \notin Range(Val(last.productIds))
    /\ Len(store.products) = 2
    /\ Len(getProductsInCatalogue(store, last.id)) = 1

====
